---- MODULE Spec2Model ----
(***************************************************************************)
(* A model of js-virtualfs: the bitmap-tree Counter (resource-counter as   *)
(* bundled in src/lib/VirtualFS.js), the FileDescriptor layer              *)
(* (src/unnamed/part_002, second revision) and the VirtualFS operations    *)
(* (src/unnamed/part_003).                                                 *)
(***************************************************************************)
EXTENDS Integers, Sequences, FiniteSets, TLC

(***************************************************************************)
(* Bounds.                                                                 *)
(* The source fixes blockSize at 32 (Counter constructor); every tree      *)
(* algorithm is parameterised by it (setupBitMapConstructors(blockSize)).  *)
(* The model instantiates a small block so that trees of depth 2 are       *)
(* within reach of an exhaustive search.                                   *)
(***************************************************************************)
blockSize == 2

MaxHeld == 5

MaxBegin == 1

MaxFds == 2

MaxInodes == 3

MaxData == 2

BufLen == 2

MaxPos == 1

\* readFileSync reads in chunks of 4096 bytes; the model's chunk is just
\* larger than the longest file it makes
ChunkLen == 3

MaxTreeInodes == 4

MaxTreeFds == 2

\* callback-form calls made in specification SpecAsync
MaxCalls == 3

(***************************************************************************)
(* State.                                                                  *)
(* Specification SpecCounter drives a Counter on its own:                  *)
(*   counter : the Counter object {_begin, _allowShrinking, _bitMapTree}   *)
(*   held    : history - ids returned by allocate and not deallocated since*)
(*   last    : history - the last call, its argument or result and the     *)
(*             value of held before it                                     *)
(* Specifications Spec and SpecIO drive a VirtualFS:                       *)
(*   fs      : the VirtualFS object {_inodeMgr, _fdMgr, _root} together    *)
(*             with the inode objects it can still reach                   *)
(*   res     : history - the last call, its arguments, its outcome and the *)
(*             parts of the state before the call that claims refer to     *)
(* Specification SpecAsync drives the callback forms of a VirtualFS:        *)
(*   loop    : the immediates that setImmediate has queued and that have   *)
(*             not run yet, and as history the callbacks invoked so far    *)
(*             and the error each callback-form call's synchronous         *)
(*             function raised                                             *)
(***************************************************************************)
VARIABLES counter, held, last, fs, res, loop

\* what a call on the VirtualFS leaves alone
cvars == <<counter, held, last, loop>>

\* what a call on the Counter leaves alone
fvars == <<fs, res, loop>>

vars == <<counter, held, last, fs, res, loop>>

\* nothing queued, nothing invoked, no callback-form call made
EventLoop == [immediates |-> <<>>, invoked |-> <<>>, calls |-> <<>>]

\* the null that firstUnset returns for a full bitmap (never a bit index)
Null == -1

RECURSIVE Pow(_, _)
Pow(b, e) == IF e = 0 THEN 1 ELSE b * Pow(b, e - 1)

Front(s) == SubSeq(s, 1, Len(s) - 1)

Last(s) == s[Len(s)]

Min(S) == CHOOSE x \in S : \A y \in S : x <= y

(***************************************************************************)
(* Bitmap adapters.  The source stores the inverse bits in a BitSet; the   *)
(* adapters restore "set = allocated".  A bitmap is modelled as the set of *)
(* indices that are set.                                                   *)
(***************************************************************************)
createBitMap == {}

setBit(bitMap, i) == bitMap \cup {i}

unsetBit(bitMap, i) == bitMap \ {i}

isSet(bitMap, i) == i \in bitMap

allSet(bitMap) == \A i \in 0 .. blockSize - 1 : i \in bitMap

allUnset(bitMap) == Cardinality((0 .. blockSize - 1) \ bitMap) = blockSize

firstUnset(bitMap) ==
  IF \E i \in 0 .. blockSize - 1 : i \notin bitMap
    THEN Min({i \in 0 .. blockSize - 1 : i \notin bitMap})
    ELSE Null

(***************************************************************************)
(* Bitmap trees.  A tree is a record; a Node owns the sequence of its      *)
(* children (child i of the source is bitMapTrees[i + 1]).  parentNode and *)
(* parentIndex are the position of a tree below the root: a path is the    *)
(* sequence of child indices leading to it.                                *)
(***************************************************************************)
Leaf(begin) ==
  [kind |-> "Leaf", begin |-> begin, depth |-> 0, bitMap |-> createBitMap,
   bitMapTrees |-> <<>>]

Node(begin, depth) ==
  [kind |-> "Node", begin |-> begin, depth |-> depth, bitMap |-> createBitMap,
   bitMapTrees |-> <<>>]

RECURSIVE Sub(_, _)
Sub(t, p) == IF p = <<>> THEN t ELSE Sub(t.bitMapTrees[Head(p) + 1], Tail(p))

RECURSIVE Replace(_, _, _)
Replace(t, p, new) ==
  IF p = <<>> THEN new
  ELSE [t EXCEPT !.bitMapTrees[Head(p) + 1] = Replace(@, Tail(p), new)]

\* BitMapTree.set: sets a bit, propagating "full" to the parent
RECURSIVE set(_, _, _)
set(t, p, index) ==
  LET n == Sub(t, p) IN
  IF ~isSet(n.bitMap, index)
    THEN LET bm == setBit(n.bitMap, index)
             t1 == Replace(t, p, [n EXCEPT !.bitMap = bm])
         IN IF p # <<>> /\ allSet(bm) THEN set(t1, Front(p), Last(p)) ELSE t1
    ELSE t

\* BitMapTree.unset: clears a bit, propagating "no longer full" to the parent
RECURSIVE unset(_, _, _)
unset(t, p, index) ==
  LET n == Sub(t, p) IN
  IF isSet(n.bitMap, index)
    THEN LET allSetPrior == allSet(n.bitMap)
             t1 == Replace(t, p, [n EXCEPT !.bitMap = unsetBit(@, index)])
         IN IF p # <<>> /\ allSetPrior THEN unset(t1, Front(p), Last(p)) ELSE t1
    ELSE t

\* Node.pushChild, applied to the node at path p
pushChild(t, p, child) ==
  LET n == Sub(t, p)
      index == Len(n.bitMapTrees)
  IN Replace(t, p,
       [n EXCEPT !.bitMapTrees = Append(@, child),
                 !.bitMap = IF allSet(child.bitMap) THEN setBit(@, index) ELSE @])

\* Node.popChild, applied to the node at path p
RECURSIVE popChild(_, _)
popChild(t, p) ==
  LET n == Sub(t, p) IN
  IF Len(n.bitMapTrees) > 0
    THEN LET lastChild == n.bitMapTrees[Len(n.bitMapTrees)] IN
         IF allUnset(lastChild.bitMap)
           THEN LET t1 == Replace(t, p, [n EXCEPT !.bitMapTrees = Front(@)])
                IN IF p # <<>> THEN popChild(t1, Front(p)) ELSE t1
           ELSE t
    ELSE t

(***************************************************************************)
(* firstUnsetCounter of the tree at path p.  The result carries the tree   *)
(* (children are created lazily on the way down), and either found = FALSE *)
(* (the source returns null) or the counter, the leaf's path and the bit.  *)
(* error is set when the source would dereference a missing child.         *)
(***************************************************************************)
NoCounter(t) ==
  [tree |-> t, found |-> FALSE, error |-> FALSE, counter |-> 0, index |-> 0,
   leaf |-> <<>>]

RECURSIVE firstUnsetCounter(_, _)
firstUnsetCounter(t, p) ==
  LET n == Sub(t, p)
      index == firstUnset(n.bitMap)
  IN
  IF n.kind = "Leaf"
    THEN IF index # Null
           THEN [tree |-> t, found |-> TRUE, error |-> FALSE,
                 counter |-> n.begin + index, index |-> index, leaf |-> p]
           ELSE NoCounter(t)
    ELSE IF index = Null THEN NoCounter(t)
    ELSE IF index < Len(n.bitMapTrees)
      THEN firstUnsetCounter(t, Append(p, index))
    ELSE IF Len(n.bitMapTrees) > 0 /\ index > Len(n.bitMapTrees)
      THEN [NoCounter(t) EXCEPT !.error = TRUE]
    ELSE
      LET newBegin == IF Len(n.bitMapTrees) > 0
                        THEN n.bitMapTrees[index].begin + Pow(blockSize, n.depth)
                        ELSE n.begin
          newDepth == n.depth - 1
          child == IF newDepth = 0 THEN Leaf(newBegin) ELSE Node(newBegin, newDepth)
          t1 == pushChild(t, p, child)
      IN firstUnsetCounter(t1, Append(p, Len(n.bitMapTrees)))

(***************************************************************************)
(* lookupCounter of the tree at path p: the path of the leaf and the bit,  *)
(* or found = FALSE.                                                       *)
(***************************************************************************)
RECURSIVE lookupCounter(_, _, _)
lookupCounter(t, p, c) ==
  LET n == Sub(t, p)
      index == (c - n.begin) \div Pow(blockSize, n.depth)
  IN
  IF n.kind = "Leaf"
    THEN IF index >= 0 /\ index < blockSize
           THEN [found |-> TRUE, index |-> index, leaf |-> p]
           ELSE [found |-> FALSE, index |-> 0, leaf |-> <<>>]
    ELSE IF index >= 0 /\ index < Len(n.bitMapTrees)
      THEN lookupCounter(t, Append(p, index), c)
      ELSE [found |-> FALSE, index |-> 0, leaf |-> <<>>]

(***************************************************************************)
(* class Counter.  The constructor ignores its blockSize argument (the     *)
(* else branch always assigns the default), starts from Leaf(0) and keeps  *)
(* begin as an offset added to every id.                                   *)
(***************************************************************************)
Counter(begin, allowShrinking) ==
  [begin |-> begin, allowShrinking |-> allowShrinking, bitMapTree |-> Leaf(0)]

\* the part of allocate that runs once firstUnsetCounter has answered
allocateFound(c, unallocated) ==
  [counter |-> [c EXCEPT !.bitMapTree =
                  set(unallocated.tree, unallocated.leaf, unallocated.index)],
   id |-> c.begin + unallocated.counter,
   error |-> FALSE]

\* Counter.allocate after the root was grown by one level
allocateGrown(c, again) ==
  IF again.found /\ ~again.error
    THEN allocateFound(c, again)
    ELSE [counter |-> c, id |-> 0, error |-> TRUE]

\* Counter.allocate after the first search of the tree
allocateFrom(c, unallocated) ==
  IF unallocated.error THEN [counter |-> c, id |-> 0, error |-> TRUE]
  ELSE IF unallocated.found THEN allocateFound(c, unallocated)
  ELSE allocateGrown(c, firstUnsetCounter(
                          pushChild(Node(unallocated.tree.begin,
                                         unallocated.tree.depth + 1),
                                    <<>>, unallocated.tree),
                          <<>>))

\* Counter.allocate: c is the Counter, the result is the Counter after the
\* call, the id returned and whether the call failed to return.  The
\* source recurses after growing the root; a root grown over a full tree
\* always has a free slot, so one level of growth is unfolded here and a
\* second miss is reported as an error.
allocate(c) == allocateFrom(c, firstUnsetCounter(c.bitMapTree, <<>>))

\* Counter.deallocate
deallocate(c, id) ==
  LET cnt == id - c.begin
      allocated == lookupCounter(c.bitMapTree, <<>>, cnt)
  IN
  IF allocated.found
    THEN LET t1 == unset(c.bitMapTree, allocated.leaf, allocated.index)
         IN [c EXCEPT !.bitMapTree =
               IF c.allowShrinking /\ allocated.leaf # <<>>
                 THEN popChild(t1, Front(allocated.leaf))
                 ELSE t1]
    ELSE c

(***************************************************************************)
(* Open flags (./constants, not part of the sources at hand: the POSIX     *)
(* values Node exposes).  O_RDONLY is 0 and every other flag is a single   *)
(* bit, so a flags word is modelled as the set of its bits: f & g # 0 is   *)
(* f \cap g # {}, and f | g is f \cup g.                                   *)
(***************************************************************************)
O_RDONLY == {}

O_WRONLY == {"O_WRONLY"}

O_RDWR == {"O_RDWR"}

O_CREAT == {"O_CREAT"}

O_EXCL == {"O_EXCL"}

O_TRUNC == {"O_TRUNC"}

O_APPEND == {"O_APPEND"}

O_DIRECTORY == {"O_DIRECTORY"}

O_NOFOLLOW == {"O_NOFOLLOW"}

And(f, g) == (f \cap g) # {}

(***************************************************************************)
(* Inode objects and the inode store (./INodes, not part of the sources at *)
(* hand; modelled from the specification, sections 3, 4.2 and 4.3).        *)
(* fs.inodes is the heap: a sequence of inode objects indexed by object    *)
(* identity (objects are never moved, an object that left the store stays  *)
(* reachable from a descriptor).  fs.inodeMgr.inodes maps an inode id to   *)
(* the object that carries it.  Undefined (0) is no object.                *)
(* A directory's entries are a sequence of [name, index] in insertion      *)
(* order, "." and ".." first.  Names and paths are sequences of            *)
(* one-character strings.                                                  *)
(***************************************************************************)
Undefined == 0

Dot == <<".">>

DotDot == <<".", ".">>

File(ino, data) ==
  [kind |-> "File", ino |-> ino, nlink |-> 1, opens |-> 0, data |-> data,
   entries |-> <<>>, link |-> <<>>]

Directory(ino, parent) ==
  [kind |-> "Directory", ino |-> ino, nlink |-> 2, opens |-> 0, data |-> <<>>,
   entries |-> << [name |-> Dot, index |-> ino],
                  [name |-> DotDot, index |-> parent] >>,
   link |-> <<>>]

Symlink(ino, link) ==
  [kind |-> "Symlink", ino |-> ino, nlink |-> 1, opens |-> 0, data |-> <<>>,
   entries |-> <<>>, link |-> link]

\* INodeManager.getINode: the object carrying id index, or Undefined
getINode(s, index) ==
  IF index \in DOMAIN s.inodeMgr.inodes THEN s.inodeMgr.inodes[index]
  ELSE Undefined

\* the props a caller may pass to createINode; a Directory made without a
\* parent is its own parent (the root)
NoProps == [data |-> <<>>, parent |-> Null, link |-> <<>>]

\* new kind(props) for the inode id ino
MakeINode(kind, ino, props) ==
  CASE kind = "File" -> File(ino, props.data)
    [] kind = "Directory" ->
         Directory(ino, IF props.parent = Null THEN ino ELSE props.parent)
    [] kind = "Symlink" -> Symlink(ino, props.link)

\* INodeManager.createINode once the id r.id was allocated
createINodeAs(s, kind, props, r) ==
  [fs |-> [s EXCEPT !.inodeMgr.counter = r.counter,
                    !.inodeMgr.inodes = (r.id :> Len(s.inodes) + 1) @@ @,
                    !.inodes = Append(@, MakeINode(kind, r.id, props))],
   index |-> r.id]

\* INodeManager.createINode(kind, props): the result is the state after the
\* call and the new id
createINode(s, kind, props) ==
  createINodeAs(s, kind, props, allocate(s.inodeMgr.counter))

\* INodeManager.link: one more reference to id index
linkINode(s, index) ==
  LET o == getINode(s, index) IN
  IF o = Undefined THEN s
  ELSE [s EXCEPT !.inodes[o].nlink = @ + 1]

\* INodeManager.unlink: one reference less; the inode leaves the store and
\* its id is released when no link and no open descriptor is counted
unlinkINode(s, index) ==
  LET o == getINode(s, index) IN
  IF o = Undefined THEN s
  ELSE LET s1 == [s EXCEPT !.inodes[o].nlink = @ - 1] IN
       IF s1.inodes[o].nlink = 0 /\ s1.inodes[o].opens = 0
         THEN [s1 EXCEPT
                 !.inodeMgr.counter = deallocate(@, index),
                 !.inodeMgr.inodes =
                    [i \in DOMAIN @ \ {index} |-> @[i]]]
         ELSE s1

\* position of name among the entries of directory object d, 0 if absent
EntryPos(s, d, name) ==
  LET es == s.inodes[d].entries
      hits == {i \in 1 .. Len(es) : es[i].name = name}
  IN IF hits = {} THEN 0 ELSE Min(hits)

\* Directory.getEntryIndex: the id stored under name, or Null
getEntryIndex(s, d, name) ==
  LET i == EntryPos(s, d, name) IN
  IF i = 0 THEN Null ELSE s.inodes[d].entries[i].index

\* Directory.getEntry: the inode object stored under name, or Undefined
getEntry(s, d, name) ==
  LET index == getEntryIndex(s, d, name) IN
  IF index = Null THEN Undefined ELSE getINode(s, index)

\* Directory.addEntry: binds name to id index and counts the new reference
addEntry(s, d, name, index) ==
  LET i == EntryPos(s, d, name)
      s1 == IF i = 0
              THEN [s EXCEPT !.inodes[d].entries =
                      Append(@, [name |-> name, index |-> index])]
              ELSE [s EXCEPT !.inodes[d].entries[i].index = index]
  IN linkINode(s1, index)

RemoveAt(seq, i) == SubSeq(seq, 1, i - 1) \o SubSeq(seq, i + 1, Len(seq))

\* Directory.deleteEntry: removes name and drops the reference it held
deleteEntry(s, d, name) ==
  LET i == EntryPos(s, d, name) IN
  IF i = 0 THEN s
  ELSE LET index == s.inodes[d].entries[i].index
           s1 == [s EXCEPT !.inodes[d].entries = RemoveAt(@, i)]
       IN unlinkINode(s1, index)

\* Directory.getEntries: the names, "." and ".." included
getEntries(s, d) == [i \in 1 .. Len(s.inodes[d].entries) |->
                       s.inodes[d].entries[i].name]

IsFile(s, o) == o # Undefined /\ s.inodes[o].kind = "File"

IsDirectory(s, o) == o # Undefined /\ s.inodes[o].kind = "Directory"

IsSymlink(s, o) == o # Undefined /\ s.inodes[o].kind = "Symlink"

(***************************************************************************)
(* Paths.                                                                  *)
(***************************************************************************)
Slash == "/"

\* length of the run of "/" that starts at position i of path
RECURSIVE SlashRun(_, _)
SlashRun(path, i) ==
  IF i <= Len(path) /\ path[i] = Slash THEN 1 + SlashRun(path, i + 1) ELSE 0

\* position of the first "/" of path, Len(path) + 1 if there is none
FirstSlash(path) ==
  Min({i \in 1 .. Len(path) : path[i] = Slash} \cup {Len(path) + 1})

\* VirtualFS._parsePath: /^([\s\S]*?)(?:\/+|$)([\s\S]*)/
\* the segment is what precedes the first run of "/", the rest what follows it
_parsePath(pathS) ==
  LET i == FirstSlash(pathS) IN
  [segment |-> SubSeq(pathS, 1, i - 1),
   rest |-> SubSeq(pathS, i + SlashRun(pathS, i), Len(pathS))]

\* pathS.replace(/^\.{1,2}\/|\/+/, ''): the leftmost match is removed, once.
\* At position 1 this is a leading "./" or "../", else a leading run of "/";
\* failing both, it is the first run of "/" further right.
Canonicalise(pathS) ==
  IF Len(pathS) >= 2 /\ SubSeq(pathS, 1, 2) = <<".", Slash>>
    THEN SubSeq(pathS, 3, Len(pathS))
  ELSE IF Len(pathS) >= 3 /\ SubSeq(pathS, 1, 3) = <<".", ".", Slash>>
    THEN SubSeq(pathS, 4, Len(pathS))
  ELSE LET i == FirstSlash(pathS) IN
       SubSeq(pathS, 1, i - 1) \o SubSeq(pathS, i + SlashRun(pathS, i), Len(pathS))

\* the segments of a path: maximal runs of characters other than "/"
RECURSIVE Segments(_)
Segments(path) ==
  IF path = <<>> THEN <<>>
  ELSE LET pp == _parsePath(path) IN
       IF pp.segment = <<>> THEN Segments(pp.rest)
       ELSE <<pp.segment>> \o Segments(pp.rest)

\* path.posix.normalize on the segments: "." is dropped, ".." removes the
\* segment before it (at the root it is dropped, in a relative path a
\* leading ".." stays)
RECURSIVE NormalizeSegs(_, _, _)
NormalizeSegs(segs, acc, isAbsolute) ==
  IF segs = <<>> THEN acc
  ELSE LET seg == Head(segs) IN
       IF seg = Dot THEN NormalizeSegs(Tail(segs), acc, isAbsolute)
       ELSE IF seg = DotDot
         THEN IF acc # <<>> /\ Last(acc) # DotDot
                THEN NormalizeSegs(Tail(segs), Front(acc), isAbsolute)
              ELSE IF isAbsolute
                THEN NormalizeSegs(Tail(segs), acc, isAbsolute)
              ELSE NormalizeSegs(Tail(segs), Append(acc, seg), isAbsolute)
       ELSE NormalizeSegs(Tail(segs), Append(acc, seg), isAbsolute)

RECURSIVE JoinSegs(_)
JoinSegs(segs) ==
  IF segs = <<>> THEN <<>>
  ELSE IF Len(segs) = 1 THEN Head(segs)
  ELSE Head(segs) \o <<Slash>> \o JoinSegs(Tail(segs))

\* path.posix.normalize
normalize(path) ==
  LET isAbsolute == path # <<>> /\ path[1] = Slash
      trailing == path # <<>> /\ path[Len(path)] = Slash
      body == JoinSegs(NormalizeSegs(Segments(path), <<>>, isAbsolute))
      body1 == IF body = <<>> /\ ~isAbsolute THEN Dot ELSE body
      body2 == IF body1 # <<>> /\ trailing THEN body1 \o <<Slash>> ELSE body1
  IN IF path = <<>> THEN Dot
     ELSE IF isAbsolute THEN <<Slash>> \o body2 ELSE body2

\* path.posix.join of two arguments: empty arguments are skipped
join(a, b) ==
  IF a = <<>> /\ b = <<>> THEN Dot
  ELSE IF a = <<>> THEN normalize(b)
  ELSE IF b = <<>> THEN normalize(a)
  ELSE normalize(a \o <<Slash>> \o b)

(***************************************************************************)
(* The resolver.  A result is {dir, target, name, remaining} with an error *)
(* code ("" when the call returned); target Undefined is the source's      *)
(* null, nameNull tells a null name from the empty name.                   *)
(***************************************************************************)
Navigated(dir, target, nameNull, name, remaining) ==
  [error |-> "", dir |-> dir, target |-> target, nameNull |-> nameNull,
   name |-> name, remaining |-> remaining]

NavError(code) ==
  [error |-> code, dir |-> Undefined, target |-> Undefined, nameNull |-> TRUE,
   name |-> <<>>, remaining |-> <<>>]

\* !navigated.name: null and '' are both falsy
NoName(navigated) == navigated.nameNull \/ navigated.name = <<>>

\* a faulty resolver: a symlink met for the second time is taken for a
\* name that does not exist
RECURSIVE WalkForgetting(_, _, _, _, _, _)
WalkForgetting(s, fromRoot, curdir, pathS, resolveLastLink, activeSymlinks) ==
  IF pathS = <<>> THEN NavError("ENOENT")
  ELSE IF fromRoot
    THEN LET canon == Canonicalise(pathS) IN
         IF canon = <<>>
           THEN Navigated(s.root, s.root, TRUE, <<>>, <<>>)
           ELSE WalkForgetting(s, FALSE, s.root, canon, resolveLastLink,
                               activeSymlinks)
  ELSE
    LET parse == _parsePath(pathS)
        target == getEntry(s, curdir, parse.segment)
    IN
    IF IsFile(s, target)
      THEN IF parse.rest = <<>>
             THEN Navigated(curdir, target, FALSE, parse.segment, parse.rest)
             ELSE Navigated(curdir, Undefined, TRUE, <<>>, parse.rest)
    ELSE IF IsDirectory(s, target)
      THEN IF parse.rest = <<>>
             THEN Navigated(curdir, target, FALSE, parse.segment, parse.rest)
             ELSE WalkForgetting(s, FALSE, target, parse.rest, resolveLastLink,
                                 activeSymlinks)
    ELSE IF IsSymlink(s, target)
      THEN IF ~resolveLastLink /\ parse.rest = <<>>
             THEN Navigated(curdir, target, FALSE, parse.segment, parse.rest)
           ELSE IF target \in activeSymlinks
             THEN Navigated(curdir, Undefined, FALSE, parse.segment, parse.rest)
           ELSE LET symlink == join(s.inodes[target].link, parse.rest) IN
                IF symlink[1] = Slash
                  THEN WalkForgetting(s, TRUE, curdir, symlink, resolveLastLink,
                                      activeSymlinks \cup {target})
                  ELSE WalkForgetting(s, FALSE, curdir, symlink,
                                      resolveLastLink,
                                      activeSymlinks \cup {target})
    ELSE Navigated(curdir, Undefined, FALSE, parse.segment, parse.rest)

\* VirtualFS._navigate and VirtualFS._navigateFrom; fromRoot tells which of
\* the two is entered
RECURSIVE Walk(_, _, _, _, _, _)
Walk(s, fromRoot, curdir, pathS, resolveLastLink, activeSymlinks) ==
  IF pathS = <<>> THEN NavError("ENOENT")
  ELSE IF fromRoot
    THEN LET canon == Canonicalise(pathS) IN
         IF canon = <<>>
           THEN Navigated(s.root, s.root, TRUE, <<>>, <<>>)
           ELSE Walk(s, FALSE, s.root, canon, resolveLastLink, activeSymlinks)
  ELSE
    LET parse == _parsePath(pathS)
        target == getEntry(s, curdir, parse.segment)
    IN
    IF IsFile(s, target)
      THEN IF parse.rest = <<>>
             THEN Navigated(curdir, target, FALSE, parse.segment, parse.rest)
             ELSE Navigated(curdir, Undefined, TRUE, <<>>, parse.rest)
    ELSE IF IsDirectory(s, target)
      THEN IF parse.rest = <<>>
             THEN Navigated(curdir, target, FALSE, parse.segment, parse.rest)
             ELSE Walk(s, FALSE, target, parse.rest, resolveLastLink,
                       activeSymlinks)
    ELSE IF IsSymlink(s, target)
      THEN IF ~resolveLastLink /\ parse.rest = <<>>
             THEN Navigated(curdir, target, FALSE, parse.segment, parse.rest)
           ELSE IF target \in activeSymlinks THEN NavError("ELOOP")
           ELSE LET symlink == join(s.inodes[target].link, parse.rest) IN
                IF symlink[1] = Slash
                  THEN Walk(s, TRUE, curdir, symlink, resolveLastLink,
                            activeSymlinks \cup {target})
                  ELSE Walk(s, FALSE, curdir, symlink, resolveLastLink,
                            activeSymlinks \cup {target})
    ELSE Navigated(curdir, Undefined, FALSE, parse.segment, parse.rest)

_navigate(s, pathS, resolveLastLink) ==
  Walk(s, TRUE, s.root, pathS, resolveLastLink, {})

_navigateFrom(s, curdir, pathS, resolveLastLink) ==
  Walk(s, FALSE, curdir, pathS, resolveLastLink, {})

(***************************************************************************)
(* Buffers are sequences of bytes; byte i of the source is element i + 1.  *)
(***************************************************************************)
Minimum(a, b) == IF a <= b THEN a ELSE b

Maximum(a, b) == IF a >= b THEN a ELSE b

\* Buffer.prototype.copy(target, targetStart, sourceStart): the number of
\* bytes copied; nothing is copied from a sourceStart at or past the end
CopyCount(source, target, targetStart, sourceStart) ==
  IF sourceStart >= Len(source) \/ targetStart >= Len(target) THEN 0
  ELSE Minimum(Len(target) - targetStart, Len(source) - sourceStart)

\* the target after source.copy(target, targetStart, sourceStart)
CopyInto(source, target, targetStart, sourceStart) ==
  LET n == CopyCount(source, target, targetStart, sourceStart) IN
  [i \in 1 .. Len(target) |->
     IF i > targetStart /\ i <= targetStart + n
       THEN source[sourceStart + (i - targetStart)]
       ELSE target[i]]

\* buffer.slice(start, end) for 0 <= start, 0 <= end: the window
\* [from, to) of the buffer that the slice shares with it
SliceWindow(buffer, start, end) ==
  LET from == Minimum(start, Len(buffer))
      to == Maximum(from, Minimum(end, Len(buffer)))
  IN [from |-> from, to |-> to]

(***************************************************************************)
(* class FileDescriptor and class FileDescriptorManager.  A descriptor is  *)
(* {_flags, _inode, _pos}; _inode is the inode object, not its id.  A      *)
(* position argument is <<>> for null and <<p>> for the number p.          *)
(***************************************************************************)
FileDescriptor(inode, flags) == [flags |-> flags, inode |-> inode, pos |-> 0]

\* FileDescriptorManager.getFd
getFd(s, index) ==
  IF index \in DOMAIN s.fdMgr.fds THEN s.fdMgr.fds[index] ELSE Undefined

HasFd(s, index) == index \in DOMAIN s.fdMgr.fds

\* FileDescriptorManager.createFd once the index r.id was allocated
createFdAs(s, inode, flags, r) ==
  [fs |-> [s EXCEPT !.fdMgr.counter = r.counter,
                    !.fdMgr.fds = (r.id :> FileDescriptor(inode, flags)) @@ @],
   index |-> r.id]

\* FileDescriptorManager.createFd
\* a faulty createFd that stores the descriptor under the id it was given
\* and leaves the id free in the allocator
createFdUnallocated(s, inode, flags) ==
  createFdAs(s, inode, flags,
             [allocate(s.fdMgr.counter) EXCEPT !.counter = s.fdMgr.counter])

createFd(s, inode, flags) ==
  createFdAs(s, inode, flags, allocate(s.fdMgr.counter))

\* FileDescriptorManager.deleteFd
deleteFd(s, index) ==
  [s EXCEPT !.fdMgr.counter = deallocate(@, index),
            !.fdMgr.fds = [i \in DOMAIN @ \ {index} |-> @[i]]]

\* the outcome of a call: the state after it, the error raised ("" if the
\* call returned), the value returned and the caller's buffer after it
Outcome(s, error, ret, buffer) ==
  [fs |-> s, error |-> error, ret |-> ret, buffer |-> buffer]

\* FileDescriptor.read(buffer, position) on descriptor index; buffer is the
\* window [w.from, w.to) of the caller's buffer whole
FdRead(s, index, whole, w, position) ==
  LET fd == s.fdMgr.fds[index]
      currentPosition == IF position = <<>> THEN fd.pos ELSE position[1]
      iNode == fd.inode
      view == SubSeq(whole, w.from + 1, w.to)
  IN
  IF IsFile(s, iNode)
    THEN LET data == s.inodes[iNode].data
             bytesRead == CopyCount(data, view, 0, currentPosition)
             filled == CopyInto(data, view, 0, currentPosition)
             after == SubSeq(whole, 1, w.from) \o filled
                        \o SubSeq(whole, w.to + 1, Len(whole))
             s1 == IF position # <<>>
                     THEN [s EXCEPT !.fdMgr.fds[index].pos =
                             currentPosition + bytesRead]
                     ELSE s
         IN Outcome(s1, "", bytesRead, after)
    ELSE Outcome(s, "TypeError", 0, whole)

\* part_002 imports babel-polyfill, resource-counter and File only: the
\* identifier constants that FileDescriptor.write evaluates is not bound
constantsBound == FALSE

\* FileDescriptor.write(buffer, position) on descriptor index
FdWrite(s, index, buffer, position) ==
  LET fd == s.fdMgr.fds[index]
      currentPosition == IF position = <<>> THEN fd.pos ELSE position[1]
      iNode == fd.inode
  IN
  IF ~IsFile(s, iNode) THEN Outcome(s, "TypeError", 0, buffer)
  ELSE IF ~constantsBound THEN Outcome(s, "ReferenceError", 0, buffer)
  ELSE IF And(fd.flags, O_APPEND)
    \* Buffer.concat(data, buffer): the first argument is not an array
    THEN Outcome(s, "TypeError", 0, buffer)
  ELSE
    LET data == s.inodes[iNode].data
        clamped == Minimum(Len(data), currentPosition)
        overwrittenLength == Len(data) - clamped
        extendedLength == Len(buffer) - overwrittenLength
    IN
    IF extendedLength > 0 THEN Outcome(s, "TypeError", 0, buffer)
    ELSE IF clamped < 0 THEN Outcome(s, "RangeError", 0, buffer)
    ELSE
      LET bytesWritten == CopyCount(buffer, data, clamped, 0)
          s1 == [s EXCEPT !.inodes[iNode].data =
                   CopyInto(buffer, data, clamped, 0)]
          s2 == IF position # <<>>
                  THEN [s1 EXCEPT !.fdMgr.fds[index].pos = clamped + bytesWritten]
                  ELSE s1
      IN Outcome(s2, "", bytesWritten, buffer)

(***************************************************************************)
(* class VirtualFS.                                                        *)
(***************************************************************************)
\* the constructor: both managers and the root directory, its own parent
VirtualFS ==
  LET s0 == [root |-> Undefined,
             inodeMgr |-> [counter |-> Counter(0, FALSE), inodes |-> <<>>],
             inodes |-> <<>>,
             fdMgr |-> [counter |-> Counter(0, FALSE), fds |-> <<>>]]
      made == createINode(s0, "Directory", NoProps)
  IN [made.fs EXCEPT !.root = getINode(made.fs, made.index)]

\* the string modes of openSync
ModeFlags ==
  [r   |-> O_RDONLY,
   rp  |-> O_RDWR,
   w   |-> O_WRONLY \cup O_CREAT \cup O_TRUNC,
   wx  |-> O_WRONLY \cup O_CREAT \cup O_TRUNC \cup O_EXCL,
   wp  |-> O_RDWR \cup O_CREAT \cup O_TRUNC,
   wxp |-> O_RDWR \cup O_CREAT \cup O_TRUNC \cup O_EXCL,
   a   |-> O_WRONLY \cup O_APPEND \cup O_CREAT,
   ax  |-> O_WRONLY \cup O_APPEND \cup O_CREAT \cup O_EXCL,
   ap  |-> O_RDWR \cup O_APPEND \cup O_CREAT,
   axp |-> O_RDWR \cup O_APPEND \cup O_CREAT \cup O_EXCL]

\* File.setData
setData(s, o, data) == [s EXCEPT !.inodes[o].data = data]

\* openSync, the tail shared by its two successful paths: the descriptor
\* index made by createFd is returned
Opened(fd) == Outcome(fd.fs, "", fd.index, <<>>)

\* openSync, target absent and O_CREAT given: a new empty File is entered
\* under navigated.name and a descriptor is made on it
openSyncCreate(s, made, navigated, flags) ==
  Opened(createFd(addEntry(made.fs, navigated.dir, navigated.name, made.index),
                  getINode(made.fs, made.index), flags))

\* a faulty openSyncTarget: O_TRUNC is not looked at
openSyncTargetKeeping(s, navigated, flags) ==
  IF navigated.error # "" THEN Outcome(s, navigated.error, 0, <<>>)
  ELSE IF navigated.target = Undefined /\ NoName(navigated)
    THEN Outcome(s, "ENOENT", 0, <<>>)
  ELSE IF navigated.target = Undefined
    THEN IF And(flags, O_CREAT)
           THEN openSyncCreate(s, createINode(s, "File", NoProps),
                               navigated, flags)
           ELSE Outcome(s, "ENOENT", 0, <<>>)
  ELSE IF And(flags, O_CREAT) /\ And(flags, O_EXCL)
    THEN Outcome(s, "EEXIST", 0, <<>>)
  ELSE IF IsDirectory(s, navigated.target)
          /\ And(flags, O_WRONLY \cup (flags \cap O_RDWR))
    THEN Outcome(s, "EISDIR", 0, <<>>)
  ELSE IF And(flags, O_DIRECTORY) /\ ~IsDirectory(s, navigated.target)
    THEN Outcome(s, "ENOTDIR", 0, <<>>)
  ELSE Opened(createFd(s, navigated.target, flags))

\* openSync after the last link was resolved
openSyncTarget(s, navigated, flags) ==
  IF navigated.error # "" THEN Outcome(s, navigated.error, 0, <<>>)
  ELSE IF navigated.target = Undefined /\ NoName(navigated)
    THEN Outcome(s, "ENOENT", 0, <<>>)
  ELSE IF navigated.target = Undefined
    THEN IF And(flags, O_CREAT)
           THEN openSyncCreate(s, createINode(s, "File", NoProps),
                               navigated, flags)
           ELSE Outcome(s, "ENOENT", 0, <<>>)
  ELSE IF And(flags, O_CREAT) /\ And(flags, O_EXCL)
    THEN Outcome(s, "EEXIST", 0, <<>>)
  ELSE IF IsDirectory(s, navigated.target)
          /\ And(flags, O_WRONLY \cup (flags \cap O_RDWR))
    THEN Outcome(s, "EISDIR", 0, <<>>)
  ELSE IF And(flags, O_DIRECTORY) /\ ~IsDirectory(s, navigated.target)
    THEN Outcome(s, "ENOTDIR", 0, <<>>)
  ELSE IF And(flags, O_TRUNC) /\ IsFile(s, navigated.target)
          /\ And(flags, O_WRONLY \cup O_RDWR)
    THEN Opened(createFd(setData(s, navigated.target, <<>>),
                         navigated.target, flags))
  ELSE Opened(createFd(s, navigated.target, flags))

\* a faulty openSyncNavigated: O_NOFOLLOW is not looked at, a last symlink
\* is followed unless O_CREAT and O_EXCL are both given
openSyncNavigatedFollowing(s, navigated, flags) ==
  IF navigated.error # "" THEN Outcome(s, navigated.error, 0, <<>>)
  ELSE IF IsSymlink(s, navigated.target)
          /\ And(flags, O_CREAT) /\ And(flags, O_EXCL)
    THEN Outcome(s, "EEXIST", 0, <<>>)
  ELSE IF IsSymlink(s, navigated.target)
    THEN openSyncTarget(s, _navigateFrom(s, navigated.dir,
                             navigated.name \o navigated.remaining, TRUE),
                        flags)
  ELSE openSyncTarget(s, navigated, flags)

\* openSync after the first navigation, which leaves a last symlink alone
openSyncNavigated(s, navigated, flags) ==
  IF navigated.error # "" THEN Outcome(s, navigated.error, 0, <<>>)
  ELSE IF IsSymlink(s, navigated.target) /\ And(flags, O_NOFOLLOW)
    THEN Outcome(s, "ELOOP", 0, <<>>)
  ELSE IF IsSymlink(s, navigated.target)
          /\ And(flags, O_CREAT) /\ And(flags, O_EXCL)
    THEN Outcome(s, "EEXIST", 0, <<>>)
  ELSE IF IsSymlink(s, navigated.target)
    THEN openSyncTarget(s, _navigateFrom(s, navigated.dir,
                             navigated.name \o navigated.remaining, TRUE),
                        flags)
  ELSE openSyncTarget(s, navigated, flags)

\* VirtualFS.openSync with numeric flags (a string mode is first replaced
\* by its ModeFlags entry); ret is the descriptor index
openSync(s, pathS, flags) ==
  openSyncNavigated(s, _navigate(s, pathS, FALSE), flags)

\* VirtualFS.closeSync: the argument of deleteFd is the identifier fd,
\* which the method never declares (its parameter is fdIndex)
closeSync(s, fdIndex) ==
  IF ~HasFd(s, fdIndex) THEN Outcome(s, "EBADF", 0, <<>>)
  ELSE Outcome(s, "ReferenceError", 0, <<>>)

\* VirtualFS.readSync(fdIndex, buffer, offset, length, position)
readSync(s, fdIndex, buffer, offset, length, position) ==
  IF ~HasFd(s, fdIndex) THEN Outcome(s, "EBADF", 0, buffer)
  ELSE IF position # <<>> /\ position[1] < 0 THEN Outcome(s, "EINVAL", 0, buffer)
  ELSE IF IsDirectory(s, s.fdMgr.fds[fdIndex].inode)
    THEN Outcome(s, "EISDIR", 0, buffer)
  ELSE
    LET flags == s.fdMgr.fds[fdIndex].flags IN
    IF flags # O_RDONLY /\ ~And(flags, O_RDWR) THEN Outcome(s, "EBADF", 0, buffer)
    ELSE IF offset < 0 \/ offset > Len(buffer)
      THEN Outcome(s, "RangeError", 0, buffer)
    ELSE IF length < 0 \/ length > Len(buffer)
      THEN Outcome(s, "RangeError", 0, buffer)
    ELSE FdRead(s, fdIndex, buffer, SliceWindow(buffer, offset, length), position)

\* VirtualFS.writeSync(fdIndex, data, offsetOrPos, lengthOrEncoding, position)
\* with data a Buffer; offsetOrPos and lengthOrEncoding are <<>> when the
\* caller omits them (every comparison with undefined is false and
\* slice(undefined, undefined) is the whole buffer)
writeSyncBuffer(s, fdIndex, data, offsetOrPos, lengthOrEncoding, position) ==
  IF ~HasFd(s, fdIndex) THEN Outcome(s, "EBADF", 0, data)
  ELSE IF position # <<>> /\ position[1] < 0 THEN Outcome(s, "EINVAL", 0, data)
  ELSE
    LET flags == s.fdMgr.fds[fdIndex].flags IN
    IF ~And(flags, O_WRONLY \cup O_RDWR) THEN Outcome(s, "EBADF", 0, data)
    ELSE IF offsetOrPos # <<>>
            /\ (offsetOrPos[1] < 0 \/ offsetOrPos[1] > Len(data))
      THEN Outcome(s, "RangeError", 0, data)
    ELSE IF lengthOrEncoding # <<>>
            /\ (lengthOrEncoding[1] < 0 \/ lengthOrEncoding[1] > Len(data))
      THEN Outcome(s, "RangeError", 0, data)
    ELSE
      LET w == SliceWindow(data,
                 IF offsetOrPos = <<>> THEN 0 ELSE offsetOrPos[1],
                 IF lengthOrEncoding = <<>> THEN Len(data)
                                            ELSE lengthOrEncoding[1])
          r == FdWrite(s, fdIndex, SubSeq(data, w.from + 1, w.to), position)
      IN IF r.error = "RangeError" THEN Outcome(s, "ENOSPC", 0, data)
         ELSE Outcome(r.fs, r.error, r.ret, data)

\* VirtualFS.writeSync(fdIndex, data, offsetOrPos, lengthOrEncoding) with
\* data a string of bytes: the third argument is the position, taken after
\* the sign of the (absent) fifth argument was checked
writeSyncString(s, fdIndex, data, offsetOrPos) ==
  IF ~HasFd(s, fdIndex) THEN Outcome(s, "EBADF", 0, data)
  ELSE
    LET flags == s.fdMgr.fds[fdIndex].flags IN
    IF ~And(flags, O_WRONLY \cup O_RDWR) THEN Outcome(s, "EBADF", 0, data)
    ELSE LET r == FdWrite(s, fdIndex, data, offsetOrPos) IN
         IF r.error = "RangeError" THEN Outcome(s, "ENOSPC", 0, data)
         ELSE Outcome(r.fs, r.error, r.ret, data)

\* unlinkSync after the navigation
unlinkSyncNavigated(s, navigated) ==
  IF navigated.error # "" THEN Outcome(s, navigated.error, 0, <<>>)
  ELSE IF navigated.target = Undefined THEN Outcome(s, "ENOENT", 0, <<>>)
  ELSE IF IsDirectory(s, navigated.target) THEN Outcome(s, "EISDIR", 0, <<>>)
  ELSE Outcome(deleteEntry(s, navigated.dir, navigated.name), "", 0, <<>>)

\* a faulty unlinkSync: the last symlink of the path is followed
unlinkSyncFollowing(s, pathS) ==
  unlinkSyncNavigated(s, _navigate(s, pathS, TRUE))

\* VirtualFS.unlinkSync
unlinkSync(s, pathS) == unlinkSyncNavigated(s, _navigate(s, pathS, FALSE))

\* a call that returns an object (a Stat, a list of names, a buffer): the
\* value travels where a read carries the caller's buffer
Value(s, value) == Outcome(s, "", 0, value)

\* new Stat(clone(iNode.getMetadata())) for inode object o: the fields of the
\* metadata that the calls of this model can tell apart
Stat(s, o) ==
  [ino |-> s.inodes[o].ino, kind |-> s.inodes[o].kind,
   nlink |-> s.inodes[o].nlink, size |-> Len(s.inodes[o].data)]

\* VirtualFS.fstatSync
fstatSync(s, fdIndex) ==
  IF ~HasFd(s, fdIndex) THEN Outcome(s, "EBADF", 0, <<>>)
  ELSE Value(s, <<Stat(s, s.fdMgr.fds[fdIndex].inode)>>)

\* VirtualFS.fchmodSync: permissions are not kept
fchmodSync(s, fdIndex) ==
  IF ~HasFd(s, fdIndex) THEN Outcome(s, "EBADF", 0, <<>>)
  ELSE Outcome(s, "", 0, <<>>)

\* VirtualFS.fchownSync: ownership is not kept
fchownSync(s, fdIndex) ==
  IF ~HasFd(s, fdIndex) THEN Outcome(s, "EBADF", 0, <<>>)
  ELSE Outcome(s, "", 0, <<>>)

\* VirtualFS.fsyncSync
fsyncSync(s, fdIndex) ==
  IF ~HasFd(s, fdIndex) THEN Outcome(s, "EBADF", 0, <<>>)
  ELSE Outcome(s, "", 0, <<>>)

\* VirtualFS.fdatasyncSync
fdatasyncSync(s, fdIndex) ==
  IF ~HasFd(s, fdIndex) THEN Outcome(s, "EBADF", 0, <<>>)
  ELSE Outcome(s, "", 0, <<>>)

\* VirtualFS.futimesSync: the body declares const newAtime; and
\* const newMtime; without initialisers and assigns to them afterwards, which
\* is a SyntaxError, so no statement of the method runs
futimesSync(s, fdIndex) == Outcome(s, "SyntaxError", 0, <<>>)

\* VirtualFS.ftruncateSync: FileDescriptor.truncate has an empty body, so an
\* accepted call leaves the file as it was
ftruncateSync(s, fdIndex, len) ==
  IF ~HasFd(s, fdIndex) THEN Outcome(s, "EBADF", 0, <<>>)
  ELSE IF ~And(s.fdMgr.fds[fdIndex].flags, O_WRONLY \cup O_RDWR)
    THEN Outcome(s, "EINVAL", 0, <<>>)
  ELSE Outcome(s, "", 0, <<>>)

\* readFileSync once the descriptor is known.  Each turn of the loop reads
\* a fresh zero-filled chunk with fd.read(buffer): no position is passed, so
\* the descriptor position stays and every turn reads the same bytes; the
\* loop ends only when a read fills less than the chunk.  Then closeSync is
\* called unless fdIndex is 0 (closeIndex is <<>> for a descriptor the
\* caller passed in), and the value is bufferTotal.toString(encoding), with
\* encoding an unbound identifier, or the last chunk when options.encoding
\* is not set.
readFileSyncFd(s, fdIndex, closeIndex, hasEncoding) ==
  IF ~HasFd(s, fdIndex) THEN Outcome(s, "EBADF", 0, <<>>)
  ELSE IF IsDirectory(s, s.fdMgr.fds[fdIndex].inode)
    THEN Outcome(s, "EISDIR", 0, <<>>)
  ELSE \* one turn of the loop
    LET chunk == [i \in 1 .. ChunkLen |-> 0]
        r == FdRead(s, fdIndex, chunk, [from |-> 0, to |-> ChunkLen], <<>>)
    IN
    IF r.error # "" THEN Outcome(s, r.error, 0, <<>>)
    ELSE IF r.ret = ChunkLen THEN Outcome(s, "Diverges", 0, <<>>)
    ELSE IF closeIndex # <<>> /\ closeIndex[1] # 0
      THEN Outcome(s, closeSync(s, closeIndex[1]).error, 0, <<>>)
    ELSE IF hasEncoding THEN Outcome(s, "ReferenceError", 0, <<>>)
    ELSE Value(s, r.buffer)

\* readFileSync(file, options) with file a path: the descriptor comes from
\* openSync(file, options.flag), whose default is 'r'
readFileSyncOpened(opened, hasEncoding) ==
  IF opened.error # "" THEN opened
  ELSE readFileSyncFd(opened.fs, opened.ret, <<opened.ret>>, hasEncoding)

readFileSyncPath(s, file, hasEncoding) ==
  readFileSyncOpened(openSync(s, file, ModeFlags.r), hasEncoding)

\* writeFileSync once the descriptor is known: the call made is
\* this.writeSync(fd, buffer, 0, buffer.length, 0) with fd the descriptor
\* object, not its index, and getFd finds nothing under an object
writeFileSyncFd(s, fdIndex, data) ==
  IF ~HasFd(s, fdIndex) THEN Outcome(s, "EBADF", 0, <<>>)
  ELSE Outcome(s, "EBADF", 0, <<>>)

\* writeFileSync(file, data, options) with file a path: the descriptor comes
\* from openSync(file, options.flag), whose default is 'w'
writeFileSyncOpened(opened, data) ==
  IF opened.error # "" THEN opened
  ELSE writeFileSyncFd(opened.fs, opened.ret, data)

writeFileSyncPath(s, file, data) ==
  writeFileSyncOpened(openSync(s, file, ModeFlags.w), data)

\* appendFileSync once the descriptor is known: fd.write(data, null,
\* constants.O_APPEND), whose RangeError becomes ENOSPC and whose other
\* errors pass through; then closeSync unless fdIndex is 0 or undefined
\* (closeIndex is <<>> for a descriptor the caller passed in)
appendFileSyncWritten(r, closeIndex) ==
  IF r.error = "RangeError" THEN Outcome(r.fs, "ENOSPC", 0, <<>>)
  ELSE IF r.error # "" THEN Outcome(r.fs, r.error, 0, <<>>)
  ELSE IF closeIndex # <<>> /\ closeIndex[1] # 0
    THEN Outcome(r.fs, closeSync(r.fs, closeIndex[1]).error, 0, <<>>)
  ELSE Outcome(r.fs, "", 0, <<>>)

appendFileSyncFd(s, fdIndex, closeIndex, data) ==
  IF ~HasFd(s, fdIndex) THEN Outcome(s, "EBADF", 0, <<>>)
  ELSE appendFileSyncWritten(FdWrite(s, fdIndex, data, <<>>), closeIndex)

\* appendFileSync(file, data, options) with file a path: the descriptor
\* comes from openSync(file, options.flag), whose default is 'a'
appendFileSyncOpened(opened, data) ==
  IF opened.error # "" THEN opened
  ELSE appendFileSyncFd(opened.fs, opened.ret, <<opened.ret>>, data)

appendFileSyncPath(s, file, data) ==
  appendFileSyncOpened(openSync(s, file, ModeFlags.a), data)

\* truncateSync(file, len) with file a path, after openSync(file, 'r+'):
\* ftruncateSync on the new descriptor, then closeSync on it
truncateSyncTruncated(truncated, fdIndex) ==
  IF truncated.error # "" THEN truncated
  ELSE Outcome(truncated.fs, closeSync(truncated.fs, fdIndex).error, 0, <<>>)

truncateSyncOpened(opened, len) ==
  IF opened.error # "" THEN opened
  ELSE truncateSyncTruncated(ftruncateSync(opened.fs, opened.ret, len),
                             opened.ret)

truncateSyncPath(s, file, len) ==
  truncateSyncOpened(openSync(s, file, ModeFlags.rp), len)

\* a new inode is entered under name in directory dir and the call returns
Entered(made, dir, name) ==
  Outcome(addEntry(made.fs, dir, name, made.index), "", 0, <<>>)

\* mkdirSync after the navigation
mkdirSyncNavigated(s, navigated) ==
  IF navigated.error # "" THEN Outcome(s, navigated.error, 0, <<>>)
  ELSE IF navigated.target = Undefined /\ NoName(navigated)
    THEN Outcome(s, "ENOENT", 0, <<>>)
  ELSE IF navigated.target = Undefined /\ navigated.remaining # <<>>
    THEN Outcome(s, "ENOENT", 0, <<>>)
  ELSE IF navigated.target = Undefined
    THEN Entered(createINode(s, "Directory",
                   [NoProps EXCEPT !.parent =
                      getEntryIndex(s, navigated.dir, Dot)]),
                 navigated.dir, navigated.name)
  ELSE IF ~IsDirectory(s, navigated.target)
    THEN Outcome(s, "ENOTDIR", 0, <<>>)
  ELSE Outcome(s, "EEXIST", 0, <<>>)

\* VirtualFS.mkdirSync
mkdirSync(s, pathS) == mkdirSyncNavigated(s, _navigate(s, pathS, TRUE))

\* a faulty mkdirpSync: it stops after the first directory it makes
mkdirpSyncEnteredOnce(s, index, remaining) == Outcome(s, "", 0, <<>>)

\* mkdirpSync: the loop, entered with the navigation made last.  A missing
\* component is made and the walk goes on below it with what remains.  Each
\* intermediate result is computed once, as the value of a singleton.
RECURSIVE mkdirpSyncNavigated(_, _)
mkdirpSyncEntered(s, index, remaining) ==
  IF remaining # <<>>
    THEN CHOOSE out \in
           { mkdirpSyncNavigated(s, navigated) :
               navigated \in { _navigateFrom(s, getINode(s, index), remaining,
                                             TRUE) } } : TRUE
    ELSE Outcome(s, "", 0, <<>>)

mkdirpSyncMade(made, navigated) ==
  CHOOSE out \in
    { mkdirpSyncEntered(s, made.index, navigated.remaining) :
        s \in { addEntry(made.fs, navigated.dir, navigated.name, made.index) } }
    : TRUE

mkdirpSyncNavigated(s, navigated) ==
  IF navigated.error # "" THEN Outcome(s, navigated.error, 0, <<>>)
  ELSE IF navigated.target = Undefined /\ NoName(navigated)
    THEN Outcome(s, "ENOTDIR", 0, <<>>)
  ELSE IF navigated.target = Undefined
    THEN CHOOSE out \in
           { mkdirpSyncMade(made, navigated) :
               made \in { createINode(s, "Directory",
                            [NoProps EXCEPT !.parent =
                               getEntryIndex(s, navigated.dir, Dot)]) } } : TRUE
  ELSE IF ~IsDirectory(s, navigated.target)
    THEN Outcome(s, "ENOTDIR", 0, <<>>)
  ELSE Outcome(s, "", 0, <<>>)

\* VirtualFS.mkdirpSync
mkdirpSync(s, pathS) ==
  CHOOSE out \in
    { mkdirpSyncNavigated(s, navigated) :
        navigated \in { _navigate(s, pathS, TRUE) } } : TRUE

\* symlinkSync after the navigation; navigated.remaining is not looked at
symlinkSyncNavigated(s, target, navigated) ==
  IF navigated.error # "" THEN Outcome(s, navigated.error, 0, <<>>)
  ELSE IF navigated.target = Undefined /\ NoName(navigated)
    THEN Outcome(s, "ENOENT", 0, <<>>)
  ELSE IF navigated.target = Undefined
    THEN Entered(createINode(s, "Symlink", [NoProps EXCEPT !.link = target]),
                 navigated.dir, navigated.name)
  ELSE Outcome(s, "EEXIST", 0, <<>>)

\* VirtualFS.symlinkSync
symlinkSync(s, target, pathS) ==
  IF target = <<>> THEN Outcome(s, "ENOENT", 0, <<>>)
  ELSE symlinkSyncNavigated(s, target, _navigate(s, pathS, FALSE))

\* linkSync: the new entry is added for the id found under the target's
\* name, and the id is linked once more after addEntry has counted it
linkSyncAdd(s, sourceDir, sourceName, index) ==
  Outcome(linkINode(addEntry(s, sourceDir, sourceName, index), index),
          "", 0, <<>>)

\* linkSync after the two navigations, whose errors all become ENOENT;
\* navigatedSource.remaining is not looked at
linkSyncNavigated(s, navigatedTarget, navigatedSource) ==
  IF navigatedTarget.error # "" \/ navigatedSource.error # ""
    THEN Outcome(s, "ENOENT", 0, <<>>)
  ELSE IF navigatedTarget.target = Undefined
    THEN Outcome(s, "ENOENT", 0, <<>>)
  ELSE IF IsDirectory(s, navigatedTarget.target)
    THEN Outcome(s, "EPERM", 0, <<>>)
  ELSE IF navigatedSource.target = Undefined /\ NoName(navigatedSource)
    THEN Outcome(s, "ENOENT", 0, <<>>)
  ELSE IF navigatedSource.target = Undefined
    THEN linkSyncAdd(s, navigatedSource.dir, navigatedSource.name,
                     getEntryIndex(s, navigatedTarget.dir,
                                   navigatedTarget.name))
  ELSE Outcome(s, "EEXIST", 0, <<>>)

\* VirtualFS.linkSync(target, pathS): pathS becomes one more name of target
linkSync(s, target, pathS) ==
  linkSyncNavigated(s, _navigate(s, target, FALSE), _navigate(s, pathS, FALSE))

\* rmdirSync after the navigation
rmdirSyncNavigated(s, navigated) ==
  IF navigated.error # "" THEN Outcome(s, navigated.error, 0, <<>>)
  ELSE IF navigated.target = Undefined THEN Outcome(s, "ENOENT", 0, <<>>)
  ELSE IF ~IsDirectory(s, navigated.target)
    THEN Outcome(s, "ENOTDIR", 0, <<>>)
  ELSE IF NoName(navigated) THEN Outcome(s, "EBUSY", 0, <<>>)
  ELSE IF Len(getEntries(s, navigated.target)) - 2 # 0
    THEN Outcome(s, "ENOTEMPTY", 0, <<>>)
  ELSE Outcome(deleteEntry(s, navigated.dir, navigated.name), "", 0, <<>>)

\* a faulty rmdirSync: the last symlink of the path is followed
rmdirSyncFollowing(s, pathS) == rmdirSyncNavigated(s, _navigate(s, pathS, TRUE))

\* VirtualFS.rmdirSync
rmdirSync(s, pathS) == rmdirSyncNavigated(s, _navigate(s, pathS, FALSE))

\* statSync and lstatSync after the navigation
statSyncNavigated(s, navigated) ==
  IF navigated.error # "" THEN Outcome(s, navigated.error, 0, <<>>)
  ELSE IF navigated.target = Undefined THEN Outcome(s, "ENOENT", 0, <<>>)
  ELSE Value(s, <<Stat(s, navigated.target)>>)

\* VirtualFS.statSync
statSync(s, pathS) == statSyncNavigated(s, _navigate(s, pathS, TRUE))

\* VirtualFS.lstatSync
lstatSync(s, pathS) == statSyncNavigated(s, _navigate(s, pathS, FALSE))

\* VirtualFS.accessSync(pathS) with the default mode F_OK, for which no
\* permission bit is asked
accessSync(s, pathS) ==
  IF _navigate(s, pathS, TRUE).error # ""
    THEN Outcome(s, _navigate(s, pathS, TRUE).error, 0, <<>>)
  ELSE IF _navigate(s, pathS, TRUE).target = Undefined
    THEN Outcome(s, "ENOENT", 0, <<>>)
  ELSE Outcome(s, "", 0, <<>>)

\* VirtualFS.existsSync: 1 for true, 0 for false; an error of the navigation
\* is false
existsSync(s, pathS) ==
  IF _navigate(s, pathS, TRUE).error # "" THEN Outcome(s, "", 0, <<>>)
  ELSE IF _navigate(s, pathS, TRUE).target = Undefined
    THEN Outcome(s, "", 0, <<>>)
  ELSE Outcome(s, "", 1, <<>>)

\* readdirSync after the navigation: a File has no getEntries method
readdirSyncNavigated(s, navigated) ==
  IF navigated.error # "" THEN Outcome(s, navigated.error, 0, <<>>)
  ELSE IF navigated.target = Undefined THEN Outcome(s, "ENOENT", 0, <<>>)
  ELSE IF IsSymlink(s, navigated.target) THEN Outcome(s, "ENOTDIR", 0, <<>>)
  ELSE IF ~IsDirectory(s, navigated.target)
    THEN Outcome(s, "TypeError", 0, <<>>)
  ELSE Value(s, SelectSeq(getEntries(s, navigated.target),
                          LAMBDA name : name # Dot /\ name # DotDot))

\* VirtualFS.readdirSync
readdirSync(s, pathS) == readdirSyncNavigated(s, _navigate(s, pathS, TRUE))

\* Directory.renameEntry: the id bound to oldName is bound to newName, at
\* the place of an entry of that name if there is one, else at the end
renameEntry(s, d, oldName, newName) ==
  LET i == EntryPos(s, d, oldName) IN
  IF i = 0 THEN s
  ELSE LET index == s.inodes[d].entries[i].index
           s1 == [s EXCEPT !.inodes[d].entries = RemoveAt(@, i)]
           j == EntryPos(s1, d, newName)
       IN IF j = 0
            THEN [s1 EXCEPT !.inodes[d].entries =
                    Append(@, [name |-> newName, index |-> index])]
            ELSE [s1 EXCEPT !.inodes[d].entries[j].index = index]

\* renameSync onto an existing target in another directory: the target's
\* entry is deleted, then addEntry(index, name) is called with its arguments
\* in the wrong order, which enters the source's id as a name bound to no
\* inode, and deleteEntry(index) looks for that id as a name of the source
\* directory
renameSyncOnto(s, navigatedSource, navigatedTarget, index) ==
  Outcome(deleteEntry(addEntry(deleteEntry(s, navigatedTarget.dir,
                                           navigatedTarget.name),
                               navigatedTarget.dir, <<ToString(index)>>, Null),
                      navigatedSource.dir, <<ToString(index)>>),
          "", 0, <<>>)

\* renameSync to a free name in another directory
renameSyncMove(s, navigatedSource, navigatedTarget, index) ==
  Outcome(deleteEntry(addEntry(s, navigatedTarget.dir, navigatedTarget.name,
                               index),
                      navigatedSource.dir, navigatedSource.name),
          "", 0, <<>>)

\* renameSync after the two navigations.  Object.keys(entries) - 2 is NaN
\* (falsy) for two or more names and for one non-numeric name, and -2 for
\* none
renameSyncNavigated(s, navigatedSource, navigatedTarget) ==
  IF navigatedSource.error # "" THEN Outcome(s, navigatedSource.error, 0, <<>>)
  ELSE IF navigatedTarget.error # ""
    THEN Outcome(s, navigatedTarget.error, 0, <<>>)
  ELSE IF navigatedSource.target = s.root \/ navigatedTarget.target = s.root
    THEN Outcome(s, "EBUSY", 0, <<>>)
  ELSE IF navigatedSource.target = Undefined
          \/ (navigatedTarget.target = Undefined /\ NoName(navigatedTarget))
    THEN Outcome(s, "ENOENT", 0, <<>>)
  ELSE IF IsFile(s, navigatedSource.target)
          /\ IsDirectory(s, navigatedTarget.target)
    THEN Outcome(s, "EISDIR", 0, <<>>)
  ELSE IF IsDirectory(s, navigatedSource.target)
          /\ navigatedTarget.target # Undefined
          /\ ~IsDirectory(s, navigatedTarget.target)
    THEN Outcome(s, "ENOTDIR", 0, <<>>)
  ELSE IF IsDirectory(s, navigatedTarget.target)
          /\ getEntries(s, navigatedTarget.target) = <<>>
    THEN Outcome(s, "ENOTEMPTY", 0, <<>>)
  ELSE IF navigatedSource.dir = navigatedTarget.dir
    THEN Outcome(renameEntry(s, navigatedSource.dir, navigatedSource.name,
                             navigatedTarget.name), "", 0, <<>>)
  ELSE IF navigatedTarget.target # Undefined
    THEN renameSyncOnto(s, navigatedSource, navigatedTarget,
                        getEntryIndex(s, navigatedSource.dir,
                                      navigatedSource.name))
  ELSE renameSyncMove(s, navigatedSource, navigatedTarget,
                      getEntryIndex(s, navigatedSource.dir,
                                    navigatedSource.name))

\* VirtualFS.renameSync
renameSync(s, oldPathS, newPathS) ==
  renameSyncNavigated(s, _navigate(s, oldPathS, FALSE),
                      _navigate(s, newPathS, FALSE))

(***************************************************************************)
(* Specifications Spec and SpecIO: a VirtualFS driven by arbitrary calls.  *)
(* Inputs: two paths, the string modes and some numeric flag words, byte   *)
(* strings over {1, 2}, zero-filled read buffers of BufLen bytes.          *)
(***************************************************************************)
Paths == { <<Slash, "a">>, <<Slash>> }

OpenFlags ==
  { ModeFlags[m] : m \in {"r", "w", "wp", "ap"} }
    \cup { O_RDONLY \cup O_CREAT, O_RDONLY \cup O_DIRECTORY }

FdRange == 0 .. MaxFds

WriteData == { <<3>>, <<3, 4>> }

ReadBuffer == [i \in 1 .. BufLen |-> 0]

Positions == { <<>> } \cup { <<p>> : p \in -1 .. MaxPos }

Optional(S) == { <<>> } \cup { <<x>> : x \in S }

NoCall ==
  [op |-> "new", path |-> <<>>, flags |-> {}, fd |-> 0, data |-> <<>>,
   offset |-> <<>>, length |-> <<>>, position |-> <<>>,
   error |-> "", ret |-> 0, buffer |-> <<>>, pre |-> <<>>]

Call(op, r) ==
  [NoCall EXCEPT !.op = op, !.error = r.error, !.ret = r.ret,
                 !.buffer = r.buffer, !.pre = fs]

Init ==
  /\ fs = VirtualFS
  /\ res = NoCall
  /\ counter = Counter(0, FALSE)
  /\ held = {}
  /\ last = [op |-> "new", id |-> 0, error |-> FALSE, heldBefore |-> {}]
  /\ loop = EventLoop

Open ==
  \E pathS \in Paths, flags \in OpenFlags :
    /\ Cardinality(DOMAIN fs.fdMgr.fds) < MaxFds
    /\ Len(fs.inodes) < MaxInodes
    /\ \E r \in { openSync(fs, pathS, flags) } :
       /\ fs' = r.fs
       /\ res' = [Call("openSync", r) EXCEPT !.path = pathS, !.flags = flags]
    /\ UNCHANGED cvars

Close ==
  \E fdIndex \in FdRange :
    /\ \E r \in { closeSync(fs, fdIndex) } :
       /\ fs' = r.fs
       /\ res' = [Call("closeSync", r) EXCEPT !.fd = fdIndex]
    /\ UNCHANGED cvars

Read ==
  \E fdIndex \in FdRange, offset \in 0 .. 1, length \in 1 .. BufLen + 1,
     position \in Positions :
    /\ \E r \in { readSync(fs, fdIndex, ReadBuffer, offset, length, position) } :
       /\ fs' = r.fs
       /\ res' = [Call("readSync", r) EXCEPT !.fd = fdIndex,
                    !.data = ReadBuffer, !.offset = <<offset>>,
                    !.length = <<length>>, !.position = position]
    /\ UNCHANGED cvars

WriteBuffer ==
  \E fdIndex \in FdRange, data \in WriteData,
     offsetOrPos \in Optional({0}), lengthOrEncoding \in Optional(1 .. MaxData),
     position \in Positions :
    /\ lengthOrEncoding # <<>> => lengthOrEncoding[1] = Len(data)
    /\ offsetOrPos = <<>> => lengthOrEncoding = <<>> /\ position = <<>>
    /\ lengthOrEncoding = <<>> => position = <<>>
    /\ \E r \in { writeSyncBuffer(fs, fdIndex, data, offsetOrPos,
                                lengthOrEncoding, position) } :
       /\ fs' = r.fs
       /\ res' = [Call("writeSync", r) EXCEPT !.fd = fdIndex, !.data = data,
                    !.offset = offsetOrPos, !.length = lengthOrEncoding,
                    !.position = position]
    /\ UNCHANGED cvars

WriteString ==
  \E fdIndex \in FdRange, data \in WriteData, offsetOrPos \in Positions :
    /\ \E r \in { writeSyncString(fs, fdIndex, data, offsetOrPos) } :
       /\ fs' = r.fs
       /\ res' = [Call("writeSync", r) EXCEPT !.fd = fdIndex, !.data = data,
                    !.position = offsetOrPos]
    /\ UNCHANGED cvars

Unlink ==
  \E pathS \in Paths :
    /\ \E r \in { unlinkSync(fs, pathS) } :
       /\ fs' = r.fs
       /\ res' = [Call("unlinkSync", r) EXCEPT !.path = pathS]
    /\ UNCHANGED cvars

Fstat ==
  \E fdIndex \in FdRange :
    /\ \E r \in { fstatSync(fs, fdIndex) } :
       /\ fs' = r.fs
       /\ res' = [Call("fstatSync", r) EXCEPT !.fd = fdIndex]
    /\ UNCHANGED cvars

Fchmod ==
  \E fdIndex \in FdRange :
    /\ \E r \in { fchmodSync(fs, fdIndex) } :
       /\ fs' = r.fs
       /\ res' = [Call("fchmodSync", r) EXCEPT !.fd = fdIndex]
    /\ UNCHANGED cvars

Fchown ==
  \E fdIndex \in FdRange :
    /\ \E r \in { fchownSync(fs, fdIndex) } :
       /\ fs' = r.fs
       /\ res' = [Call("fchownSync", r) EXCEPT !.fd = fdIndex]
    /\ UNCHANGED cvars

Fsync ==
  \E fdIndex \in FdRange :
    /\ \E r \in { fsyncSync(fs, fdIndex) } :
       /\ fs' = r.fs
       /\ res' = [Call("fsyncSync", r) EXCEPT !.fd = fdIndex]
    /\ UNCHANGED cvars

Fdatasync ==
  \E fdIndex \in FdRange :
    /\ \E r \in { fdatasyncSync(fs, fdIndex) } :
       /\ fs' = r.fs
       /\ res' = [Call("fdatasyncSync", r) EXCEPT !.fd = fdIndex]
    /\ UNCHANGED cvars

Futimes ==
  \E fdIndex \in FdRange :
    /\ \E r \in { futimesSync(fs, fdIndex) } :
       /\ fs' = r.fs
       /\ res' = [Call("futimesSync", r) EXCEPT !.fd = fdIndex]
    /\ UNCHANGED cvars

Ftruncate ==
  \E fdIndex \in FdRange :
    /\ \E r \in { ftruncateSync(fs, fdIndex, 0) } :
       /\ fs' = r.fs
       /\ res' = [Call("ftruncateSync", r) EXCEPT !.fd = fdIndex]
    /\ UNCHANGED cvars

ReadFileFd ==
  \E fdIndex \in FdRange, hasEncoding \in BOOLEAN :
    /\ \E r \in { readFileSyncFd(fs, fdIndex, <<>>, hasEncoding) } :
       /\ fs' = r.fs
       /\ res' = [Call("readFileSync", r) EXCEPT !.fd = fdIndex,
                    !.flags = IF hasEncoding THEN {"encoding"} ELSE {}]
    /\ UNCHANGED cvars

WriteFileFd ==
  \E fdIndex \in FdRange, data \in WriteData :
    /\ \E r \in { writeFileSyncFd(fs, fdIndex, data) } :
       /\ fs' = r.fs
       /\ res' = [Call("writeFileSync", r) EXCEPT !.fd = fdIndex, !.data = data]
    /\ UNCHANGED cvars

AppendFileFd ==
  \E fdIndex \in FdRange, data \in WriteData :
    /\ \E r \in { appendFileSyncFd(fs, fdIndex, <<>>, data) } :
       /\ fs' = r.fs
       /\ res' = [Call("appendFileSync", r) EXCEPT !.fd = fdIndex, !.data = data]
    /\ UNCHANGED cvars

NextIO == Open \/ Close \/ Read \/ WriteBuffer \/ WriteString \/ Unlink

Next ==
  \/ NextIO
  \/ Fstat \/ Fchmod \/ Fchown \/ Fsync \/ Fdatasync \/ Futimes \/ Ftruncate
  \/ ReadFileFd \/ WriteFileFd \/ AppendFileFd

Spec == Init /\ [][Next]_vars

(***************************************************************************)
(* Specification SpecIO: the same calls on a filesystem whose file /a was  *)
(* given content when its inode was made (createINode(File, {data}) and    *)
(* addEntry on the root, the two calls openSync makes with empty data).    *)
(* The descriptor layer is then exercised on files that hold bytes, which  *)
(* no sequence of VirtualFS calls of this revision produces.               *)
(***************************************************************************)
SeedData == { [i \in 1 .. n |-> i] : n \in 1 .. MaxData }

SeedEntry(made) == addEntry(made.fs, made.fs.root, <<"a">>, made.index)

Seeded(data) ==
  SeedEntry(createINode(VirtualFS, "File", [NoProps EXCEPT !.data = data]))

InitIO ==
  /\ \E data \in SeedData : fs = Seeded(data)
  /\ res = NoCall
  /\ counter = Counter(0, FALSE)
  /\ held = {}
  /\ last = [op |-> "new", id |-> 0, error |-> FALSE, heldBefore |-> {}]
  /\ loop = EventLoop

SpecIO == InitIO /\ [][NextIO]_vars

(***************************************************************************)
(* Specification SpecTree: the calls that work on the namespace.  A        *)
(* behaviour is a run of calls that build a tree, of which res keeps no    *)
(* record, followed by one call that res records with the state before    *)
(* it; after the recorded call nothing happens.  Every call is so observed *)
(* in every state the building calls reach.  The building calls are those  *)
(* that add names (open with mode 'w', mkdir, symlink, link of /a) on the  *)
(* paths of SetupPaths; the observed call is any call on any path of       *)
(* TreePaths.                                                              *)
(* Names are a, b and c; at most MaxTreeInodes inodes are made and         *)
(* MaxTreeFds descriptors opened.  The initial tree is empty or holds the  *)
(* file /a with one byte.                                                  *)
(***************************************************************************)
SetupPaths ==
  { <<Slash, "a">>, <<Slash, "b">>, <<Slash, "c">>,
    <<Slash, "b", Slash, "a">> }

TreePaths ==
  SetupPaths \cup
  { <<Slash>>, <<Slash, ".">>, <<Slash, ".", ".">>,
    <<Slash, "c", Slash, "a">>, <<Slash, "b", Slash, ".", ".">>,
    <<"b", Slash, ".", ".">> }

PathsFor(observe) == IF observe THEN TreePaths ELSE SetupPaths

\* the texts stored in symlinks
LinkTexts ==
  { <<"a">>, <<"b">>, <<Slash, "b">>, <<".", ".", Slash, "a">> }

\* while building, an absolute text and one that climbs
TextsFor(observe) ==
  IF observe THEN LinkTexts
  ELSE { <<Slash, "b">>, <<".", ".", Slash, "a">> }

TreeFlags ==
  { ModeFlags.r, ModeFlags.w, ModeFlags.wx,
    O_RDONLY \cup O_NOFOLLOW, O_RDONLY \cup O_DIRECTORY }

FlagsFor(observe) == IF observe THEN TreeFlags ELSE { ModeFlags.w }

\* the existing names linkSync is given: while building, /a only
LinkTargetsFor(observe) ==
  IF observe THEN { <<Slash, "a">>, <<Slash, "b">> } ELSE { <<Slash, "a">> }

\* the new paths renameSync is given
RenameTargets == { <<Slash, "a">>, <<Slash, "b">>, <<Slash>>, <<Slash, "b", Slash, "a">> }

\* no call was recorded yet
Unobserved == res.op = "new"

\* a call is made while none was recorded, as a building call or as the
\* observed call
Observing == IF Unobserved THEN BOOLEAN ELSE {}

\* the paths of a call that is only made as the observed call
ObservedPaths == IF Unobserved THEN TreePaths ELSE {}

\* the state a call may lead to within the bounds
WithinTree(s) ==
  /\ Len(s.inodes) <= MaxTreeInodes
  /\ Cardinality(DOMAIN s.fdMgr.fds) <= MaxTreeFds

InitTree ==
  /\ fs \in { VirtualFS, Seeded(<<1>>) }
  /\ res = NoCall
  /\ counter = Counter(0, FALSE)
  /\ held = {}
  /\ last = [op |-> "new", id |-> 0, error |-> FALSE, heldBefore |-> {}]
  /\ loop = EventLoop

OpenPath ==
  \E observe \in Observing :
    \E pathS \in PathsFor(observe), flags \in FlagsFor(observe) :
      /\ \E r \in { openSync(fs, pathS, flags) } :
         /\ WithinTree(r.fs)
         /\ fs' = r.fs
         /\ res' = IF observe
                     THEN [Call("openSync", r) EXCEPT !.path = pathS,
                                                      !.flags = flags]
                     ELSE res
      /\ UNCHANGED cvars

Mkdir ==
  \E observe \in Observing :
    \E pathS \in PathsFor(observe) :
      /\ \E r \in { mkdirSync(fs, pathS) } :
         /\ WithinTree(r.fs)
         /\ fs' = r.fs
         /\ res' = IF observe
                     THEN [Call("mkdirSync", r) EXCEPT !.path = pathS]
                     ELSE res
      /\ UNCHANGED cvars

Mkdirp ==
  \E pathS \in ObservedPaths :
    /\ \E r \in { mkdirpSync(fs, pathS) } :
       /\ fs' = r.fs
       /\ res' = [Call("mkdirpSync", r) EXCEPT !.path = pathS]
    /\ UNCHANGED cvars

SymlinkPath ==
  \E observe \in Observing :
    \E target \in TextsFor(observe), pathS \in PathsFor(observe) :
      /\ \E r \in { symlinkSync(fs, target, pathS) } :
         /\ WithinTree(r.fs)
         /\ fs' = r.fs
         /\ res' = IF observe
                     THEN [Call("symlinkSync", r) EXCEPT !.path = pathS,
                                                         !.data = target]
                     ELSE res
      /\ UNCHANGED cvars

Link ==
  \E observe \in Observing :
    \E target \in LinkTargetsFor(observe), pathS \in PathsFor(observe) :
      /\ \E r \in { linkSync(fs, target, pathS) } :
         /\ fs' = r.fs
         /\ res' = IF observe
                     THEN [Call("linkSync", r) EXCEPT !.path = pathS,
                                                      !.data = target]
                     ELSE res
      /\ UNCHANGED cvars

UnlinkPath ==
  \E pathS \in ObservedPaths :
    /\ \E r \in { unlinkSync(fs, pathS) } :
       /\ fs' = r.fs
       /\ res' = [Call("unlinkSync", r) EXCEPT !.path = pathS]
    /\ UNCHANGED cvars

Rmdir ==
  \E pathS \in ObservedPaths :
    /\ \E r \in { rmdirSync(fs, pathS) } :
       /\ fs' = r.fs
       /\ res' = [Call("rmdirSync", r) EXCEPT !.path = pathS]
    /\ UNCHANGED cvars

Rename ==
  \E oldPathS \in ObservedPaths, newPathS \in RenameTargets :
    /\ \E r \in { renameSync(fs, oldPathS, newPathS) } :
       /\ fs' = r.fs
       /\ res' = [Call("renameSync", r) EXCEPT !.path = oldPathS,
                                                !.data = newPathS]
    /\ UNCHANGED cvars

StatPath ==
  \E pathS \in ObservedPaths :
    /\ \E r \in { statSync(fs, pathS) } :
       /\ fs' = r.fs
       /\ res' = [Call("statSync", r) EXCEPT !.path = pathS]
    /\ UNCHANGED cvars

Lstat ==
  \E pathS \in ObservedPaths :
    /\ \E r \in { lstatSync(fs, pathS) } :
       /\ fs' = r.fs
       /\ res' = [Call("lstatSync", r) EXCEPT !.path = pathS]
    /\ UNCHANGED cvars

Readdir ==
  \E pathS \in ObservedPaths :
    /\ \E r \in { readdirSync(fs, pathS) } :
       /\ fs' = r.fs
       /\ res' = [Call("readdirSync", r) EXCEPT !.path = pathS]
    /\ UNCHANGED cvars

ReadFilePath ==
  \E pathS \in ObservedPaths :
    /\ \E r \in { readFileSyncPath(fs, pathS, FALSE) } :
       /\ fs' = r.fs
       /\ res' = [Call("readFileSync", r) EXCEPT !.path = pathS]
    /\ UNCHANGED cvars

WriteFilePath ==
  \E pathS \in ObservedPaths, data \in { <<>>, <<3>> } :
    /\ \E r \in { writeFileSyncPath(fs, pathS, data) } :
       /\ fs' = r.fs
       /\ res' = [Call("writeFileSync", r) EXCEPT !.path = pathS,
                                                   !.data = data]
    /\ UNCHANGED cvars

AppendFilePath ==
  \E pathS \in ObservedPaths, data \in { <<>>, <<3>> } :
    /\ \E r \in { appendFileSyncPath(fs, pathS, data) } :
       /\ fs' = r.fs
       /\ res' = [Call("appendFileSync", r) EXCEPT !.path = pathS,
                                                    !.data = data]
    /\ UNCHANGED cvars

TruncatePath ==
  \E pathS \in ObservedPaths, len \in 0 .. 1 :
    /\ \E r \in { truncateSyncPath(fs, pathS, len) } :
       /\ fs' = r.fs
       /\ res' = [Call("truncateSync", r) EXCEPT !.path = pathS,
                                                  !.length = len]
    /\ UNCHANGED cvars

NextTree ==
  \/ OpenPath \/ Mkdir \/ SymlinkPath \/ Link \/ UnlinkPath \/ Rmdir \/ Rename
  \/ StatPath \/ Lstat \/ Readdir \/ ReadFilePath \/ WriteFilePath
  \/ Mkdirp

SpecTree == InitTree /\ [][NextTree]_vars

(***************************************************************************)
(* Specification SpecFile: on the same trees, the calls that take a path   *)
(* and open a descriptor of their own.                                     *)
(***************************************************************************)
\* the paths handed to the resolver: those of the other calls, and the
\* spellings of a and of b/a with and without a leading "/", "//", "./" or
\* "../" and with a trailing "/"
NavigatePaths ==
  TreePaths \cup
  { prefix \o p \o suffix :
      prefix \in { <<>>, <<Slash>>, <<Slash, Slash>>, <<".", Slash>>,
                   <<".", ".", Slash>> },
      p \in { <<"a">>, <<"b", Slash, "a">> },
      suffix \in { <<>>, <<Slash>> } }

\* a call of _navigate(pathS, resolveLastLink), as the observed call; the
\* record keeps resolveLastLink as 1 or 0
Navigate ==
  \E pathS \in NavigatePaths, resolveLastLink \in BOOLEAN :
    /\ Unobserved
    /\ \E navigated \in { _navigate(fs, pathS, resolveLastLink) } :
       /\ fs' = fs
       /\ res' = [Call("_navigate", Value(fs, <<navigated>>))
                    EXCEPT !.path = pathS, !.error = navigated.error,
                           !.ret = IF resolveLastLink THEN 1 ELSE 0]
    /\ UNCHANGED cvars

NextFile ==
  \/ Mkdir \/ SymlinkPath
  \/ ReadFilePath \/ WriteFilePath \/ AppendFilePath \/ TruncatePath
  \/ Navigate

SpecFile == InitTree /\ [][NextFile]_vars

(***************************************************************************)
(* Specification SpecCounter: a Counter driven by arbitrary allocate and   *)
(* deallocate calls.                                                       *)
(***************************************************************************)
IdRange == 0 .. MaxBegin + Pow(blockSize, 3)

InitCounter ==
  /\ fs = VirtualFS
  /\ res = NoCall
  /\ \E b \in 0 .. MaxBegin, s \in BOOLEAN : counter = Counter(b, s)
  /\ held = {}
  /\ last = [op |-> "new", id |-> 0, error |-> FALSE, heldBefore |-> {}]
  /\ loop = EventLoop

Allocate ==
  /\ Cardinality(held) < MaxHeld
  /\ \E r \in { allocate(counter) } :
     /\ counter' = r.counter
     /\ held' = IF r.error THEN held ELSE held \cup {r.id}
     /\ last' = [op |-> "allocate", id |-> r.id, error |-> r.error,
                 heldBefore |-> held]
  /\ UNCHANGED fvars

Deallocate ==
  \E id \in IdRange :
    /\ counter' = deallocate(counter, id)
    /\ held' = held \ {id}
    /\ last' = [op |-> "deallocate", id |-> id, error |-> FALSE,
                heldBefore |-> held]
    /\ UNCHANGED fvars

NextCounter == Allocate \/ Deallocate

SpecCounter == InitCounter /\ [][NextCounter]_vars

(***************************************************************************)
(* Specification SpecAsync: the callback forms mkdir, rmdir, exists and    *)
(* access called on a new VirtualFS, with or without a callback, and the   *)
(* event loop that runs the immediates they queue.                         *)
(***************************************************************************)
AsyncPaths == { <<Slash, "b">>, <<Slash, "b", Slash, "a">> }

\* VirtualFS._maybeCallback: the function given, or one that throws the
\* error it is called with
_maybeCallback(hasCallback) == IF hasCallback THEN "callback" ELSE "rethrow"

\* a faulty _callAsync: it calls the callback itself, before it returns
_callAsyncInline(l, r, callback) ==
  [l EXCEPT !.invoked = Append(@, [id |-> Len(l.calls) + 1, fn |-> callback,
                                   err |-> r.error])]

\* VirtualFS._callAsync(syncFn, args, successCall, failCall), with r the
\* outcome of syncFn(...args) and both calls the same callback.  An error
\* of syncFn is caught and failCall(e) is queued with setImmediate.  When
\* syncFn returns, the next statement assigns to result, which is declared
\* const: that assignment throws a TypeError inside the try block, before
\* setImmediate(successCall), so the catch clause queues failCall with the
\* TypeError.
_callAsync(l, r, callback) ==
  [l EXCEPT !.immediates =
     Append(@, [id |-> Len(l.calls) + 1, fn |-> callback,
                err |-> IF r.error # "" THEN r.error ELSE "TypeError"])]

\* the callback-form call has returned: its place in the history
Returned(l, r) == [l EXCEPT !.calls = Append(@, r.error)]

InitAsync ==
  /\ fs = VirtualFS
  /\ res = NoCall
  /\ counter = Counter(0, FALSE)
  /\ held = {}
  /\ last = [op |-> "new", id |-> 0, error |-> FALSE, heldBefore |-> {}]
  /\ loop = EventLoop

\* a callback-form call of operation op whose synchronous function gave r
CallbackForm(op, pathS, hasCallback, r) ==
  /\ Len(loop.calls) < MaxCalls
  /\ fs' = r.fs
  /\ res' = [Call(op, r) EXCEPT !.path = pathS]
  /\ loop' = Returned(_callAsync(loop, r, _maybeCallback(hasCallback)), r)
  /\ UNCHANGED <<counter, held, last>>

MkdirCb ==
  \E pathS \in AsyncPaths, hasCallback \in BOOLEAN :
    CallbackForm("mkdir", pathS, hasCallback, mkdirSync(fs, pathS))

RmdirCb ==
  \E pathS \in AsyncPaths, hasCallback \in BOOLEAN :
    CallbackForm("rmdir", pathS, hasCallback, rmdirSync(fs, pathS))

ExistsCb ==
  \E pathS \in AsyncPaths, hasCallback \in BOOLEAN :
    CallbackForm("exists", pathS, hasCallback, existsSync(fs, pathS))

AccessCb ==
  \E pathS \in AsyncPaths, hasCallback \in BOOLEAN :
    CallbackForm("access", pathS, hasCallback, accessSync(fs, pathS))

\* the event loop runs the oldest immediate: the callback is called with
\* the error
Tick ==
  /\ loop.immediates # <<>>
  /\ loop' = [loop EXCEPT !.immediates = Tail(@),
                          !.invoked = Append(@, Head(loop.immediates))]
  /\ UNCHANGED <<counter, held, last, fs, res>>

NextAsync == MkdirCb \/ RmdirCb \/ ExistsCb \/ AccessCb \/ Tick

\* setImmediate runs every immediate queued: the loop does not stop while
\* one is waiting
SpecAsync == InitAsync /\ [][NextAsync]_vars /\ WF_vars(Tick)

(***************************************************************************)
(* C1.  allocate never returns an id that is currently held (returned by   *)
(* an earlier allocate and not deallocated since), with allowShrinking     *)
(* false or true.                                                          *)
(***************************************************************************)
C1_AllocateNeverReturnsHeld ==
  (last.op = "allocate" /\ ~last.error) => last.id \notin last.heldBefore

(***************************************************************************)
(* C2.  allocate returns begin + k for the smallest k >= 0 such that       *)
(* begin + k is not held.  Among |held| + 1 candidates one is free, so the *)
(* search for k is bounded by the number of held ids.                      *)
(***************************************************************************)
LowestFree(begin, heldIds) ==
  begin + Min({k \in 0 .. Cardinality(heldIds) : begin + k \notin heldIds})

C2_AllocateReturnsLowestFree ==
  last.op = "allocate" =>
    /\ ~last.error
    /\ last.id = LowestFree(counter.begin, last.heldBefore)

(***************************************************************************)
(* The call recorded in res, seen from both sides: the descriptor and the  *)
(* file it names before the call (in res.pre) and after it (in fs).        *)
(***************************************************************************)
PreFd == res.pre.fdMgr.fds[res.fd]

PostFd == fs.fdMgr.fds[res.fd]

PreData == res.pre.inodes[PreFd.inode].data

PostData == fs.inodes[PreFd.inode].data

\* descriptor i of s names a regular file
OnFile(s, i) == HasFd(s, i) /\ IsFile(s, s.fdMgr.fds[i].inode)

\* the access mode of a flag word: O_RDONLY, O_WRONLY or O_RDWR
AccessMode(flags) == flags \cap (O_WRONLY \cup O_RDWR)

\* the position argument is null or a non-negative number
ValidPosition == res.position = <<>> \/ res.position[1] >= 0

\* the position a call works at: the argument, or the descriptor's own
EffectivePosition == IF res.position = <<>> THEN PreFd.pos ELSE res.position[1]

\* data with bytes laid over it from position p on (p within data)
Overwrite(data, bytes, p) ==
  [i \in 1 .. Maximum(Len(data), p + Len(bytes)) |->
     IF i > p /\ i <= p + Len(bytes) THEN bytes[i - p] ELSE data[i]]

\* no directory of s holds an entry for inode object o
Unlinked(s, o) ==
  \A d \in 1 .. Len(s.inodes) :
    \A e \in 1 .. Len(s.inodes[d].entries) :
      getINode(s, s.inodes[d].entries[e].index) # o

(***************************************************************************)
(* C3.  A descriptor keeps an unlinked inode alive.  While a descriptor on *)
(* a regular file exists, and while a directory entry names it, the inode  *)
(* stays in the store under its id; and through a read-write descriptor    *)
(* whose file has lost every directory entry, a write at a valid position  *)
(* inside the data succeeds and lands in the file's data, and a read       *)
(* succeeds.                                                               *)
(***************************************************************************)
C3_DescriptorKeepsUnlinkedInodeAlive ==
  /\ \A i \in DOMAIN fs.fdMgr.fds :
       LET o == fs.fdMgr.fds[i].inode IN
       IsFile(fs, o) => getINode(fs, fs.inodes[o].ino) = o
  /\ \A d \in 1 .. Len(fs.inodes) :
       \A e \in 1 .. Len(fs.inodes[d].entries) :
         getINode(fs, fs.inodes[d].entries[e].index) # Undefined
  /\ (/\ res.op \in {"readSync", "writeSync"}
      /\ OnFile(res.pre, res.fd)
      /\ Unlinked(res.pre, PreFd.inode)
      /\ AccessMode(PreFd.flags) = O_RDWR
      /\ ~And(PreFd.flags, O_APPEND)
      /\ ValidPosition
      /\ EffectivePosition <= Len(PreData))
     => /\ res.op = "writeSync" =>
             /\ res.error = ""
             /\ PostData = Overwrite(PreData, res.data, EffectivePosition)
        /\ (res.op = "readSync" /\ res.length[1] <= Len(res.data)) =>
             res.error = ""

(***************************************************************************)
(* C4.  close releases the descriptor.  closeSync on a descriptor of the   *)
(* table returns without raising, the descriptor is no longer in the       *)
(* table, and its id is free again: the next id the descriptor allocator   *)
(* would hand out is not above it.  A read, a write or a close on an id    *)
(* that is not in the table fails with EBADF.                              *)
(***************************************************************************)
C4_CloseReleasesDescriptor ==
  /\ (res.op = "closeSync" /\ HasFd(res.pre, res.fd)) =>
       /\ res.error = ""
       /\ ~HasFd(fs, res.fd)
       /\ allocate(fs.fdMgr.counter).id <= res.fd
  /\ (res.op \in {"readSync", "writeSync", "closeSync"}
        /\ ~HasFd(res.pre, res.fd)) =>
       res.error = "EBADF"

(***************************************************************************)
(* C5.  Read position rule.  After a readSync that returned, the           *)
(* descriptor position is the old one plus the number of bytes returned if *)
(* the position argument was null, and the old one if the position         *)
(* argument was a number (0 included).                                     *)
(***************************************************************************)
C5_ReadPositionRule ==
  (res.op = "readSync" /\ res.error = "") =>
    PostFd.pos = IF res.position = <<>> THEN PreFd.pos + res.ret
                                        ELSE PreFd.pos

(***************************************************************************)
(* C6.  Write position rule, descriptor without O_APPEND.  A writeSync     *)
(* through a writable descriptor of a regular file, at a null or           *)
(* non-negative position, returns the number of bytes given; with a null   *)
(* position the bytes land at the descriptor position, which then advances *)
(* by that number; with a number the bytes land there and the descriptor   *)
(* position stays.                                                         *)
(***************************************************************************)
C6_WritePositionRule ==
  (/\ res.op = "writeSync"
   /\ OnFile(res.pre, res.fd)
   /\ AccessMode(PreFd.flags) # O_RDONLY
   /\ ~And(PreFd.flags, O_APPEND)
   /\ ValidPosition)
  => /\ res.error = ""
     /\ res.ret = Len(res.data)
     /\ EffectivePosition <= Len(PreData) =>
          PostData = Overwrite(PreData, res.data, EffectivePosition)
     /\ PostFd.pos = IF res.position = <<>> THEN PreFd.pos + Len(res.data)
                                            ELSE PreFd.pos

\* the call in res is a write through a writable O_APPEND descriptor of a
\* regular file at a null or non-negative position
AppendWrite ==
  /\ res.op = "writeSync"
  /\ OnFile(res.pre, res.fd)
  /\ AccessMode(PreFd.flags) # O_RDONLY
  /\ And(PreFd.flags, O_APPEND)
  /\ ValidPosition

(***************************************************************************)
(* C7.  Append placement.  A write through an O_APPEND descriptor returns  *)
(* and leaves as file data the old data followed by the bytes written,     *)
(* whatever the position argument and the descriptor position.             *)
(***************************************************************************)
C7_AppendPlacement ==
  AppendWrite => /\ res.error = ""
                 /\ PostData = PreData \o res.data

(***************************************************************************)
(* C8.  Append moves the position to the end.  After a write through an    *)
(* O_APPEND descriptor the descriptor position is the size the file has    *)
(* with the written bytes appended.                                        *)
(***************************************************************************)
C8_AppendMovesPositionToEnd ==
  AppendWrite => PostFd.pos = Len(PreData) + Len(res.data)

C10_AccessModeEnforcement ==
  /\ (/\ res.op = "readSync"
      /\ ValidPosition
      /\ HasFd(res.pre, res.fd) => OnFile(res.pre, res.fd))
     => (res.error = "EBADF"
           <=> (~HasFd(res.pre, res.fd)
                  \/ AccessMode(PreFd.flags) = O_WRONLY))
  /\ (/\ res.op = "writeSync"
      /\ ValidPosition
      /\ HasFd(res.pre, res.fd) => OnFile(res.pre, res.fd))
     => (res.error = "EBADF"
           <=> (~HasFd(res.pre, res.fd)
                  \/ AccessMode(PreFd.flags) = O_RDONLY))
  /\ (res.op \in {"readSync", "writeSync"} /\ res.error = "EBADF") =>
       fs = res.pre

(***************************************************************************)
(* C11.  Directory descriptors.  Opening an existing directory with        *)
(* O_RDONLY (with or without O_DIRECTORY) succeeds; opening it with        *)
(* O_WRONLY or O_RDWR fails with EISDIR.  On a descriptor of a directory   *)
(* readSync fails with EISDIR, writeSync with EBADF, ftruncateSync with    *)
(* EINVAL, readFileSync(fd) with EISDIR and writeFileSync(fd, data) with   *)
(* EBADF, while fstat, fchmod, fchown, fsync, fdatasync and futimes        *)
(* return without an error.                                                *)
(***************************************************************************)
\* the call was made on a descriptor that names a directory
OnDirectory ==
  /\ res.op # "new"
  /\ HasFd(res.pre, res.fd)
  /\ IsDirectory(res.pre, PreFd.inode)

\* the path of the call names a directory, last link followed
PathToDirectory ==
  IsDirectory(res.pre, _navigate(res.pre, res.path, TRUE).target)

C11_DirectoryDescriptors ==
  /\ (res.op = "openSync" /\ PathToDirectory) =>
       /\ res.flags \in {O_RDONLY, O_RDONLY \cup O_DIRECTORY} => res.error = ""
       /\ And(res.flags, O_WRONLY \cup O_RDWR) => res.error = "EISDIR"
  /\ OnDirectory =>
       /\ res.op = "readSync" /\ ValidPosition => res.error = "EISDIR"
       /\ res.op = "writeSync" /\ ValidPosition => res.error = "EBADF"
       /\ res.op = "ftruncateSync" => res.error = "EINVAL"
       /\ res.op = "readFileSync" => res.error = "EISDIR"
       /\ res.op = "writeFileSync" => res.error = "EBADF"
       /\ res.op \in {"fstatSync", "fchmodSync", "fchownSync", "fsyncSync",
                      "fdatasyncSync", "futimesSync"} => res.error = ""

(***************************************************************************)
(* C12.  open error outcomes.  When the last path component is a symlink,  *)
(* open fails with ELOOP if O_NOFOLLOW is set and with EEXIST if O_CREAT   *)
(* and O_EXCL are both set, and otherwise follows the symlink.  When the   *)
(* resolved target exists, open fails with EEXIST if O_CREAT and O_EXCL    *)
(* are both set and with ENOTDIR if O_DIRECTORY is set and the target is   *)
(* not a directory.  When the target does not exist and O_CREAT is not     *)
(* set, open fails with ENOENT.  In each failing case no descriptor is     *)
(* allocated and no file is created or truncated.                          *)
(* What the path names is read off lstat and stat in the state before the  *)
(* call.                                                                   *)
(***************************************************************************)
\* lstat of the call's path in the state before the call
PreLstat == lstatSync(res.pre, res.path)

\* stat of the call's path in the state before the call
PreStat == statSync(res.pre, res.path)

\* the last component of the call's path is a symlink
LastIsSymlink == PreLstat.error = "" /\ PreLstat.buffer[1].kind = "Symlink"

C12_OpenErrorOutcomes ==
  res.op = "openSync" =>
    /\ (LastIsSymlink /\ And(res.flags, O_NOFOLLOW)) => res.error = "ELOOP"
    /\ (/\ LastIsSymlink
        /\ ~And(res.flags, O_NOFOLLOW)
        /\ And(res.flags, O_CREAT) /\ And(res.flags, O_EXCL))
       => res.error = "EEXIST"
    /\ (PreStat.error = "" /\ ~(LastIsSymlink /\ And(res.flags, O_NOFOLLOW))) =>
         /\ (And(res.flags, O_CREAT) /\ And(res.flags, O_EXCL))
              => res.error = "EEXIST"
         /\ (/\ ~(And(res.flags, O_CREAT) /\ And(res.flags, O_EXCL))
             /\ And(res.flags, O_DIRECTORY)
             /\ PreStat.buffer[1].kind # "Directory")
            => res.error = "ENOTDIR"
    /\ (/\ PreStat.error = "ENOENT"
        /\ ~(LastIsSymlink /\ And(res.flags, O_NOFOLLOW))
        /\ ~And(res.flags, O_CREAT))
       => res.error = "ENOENT"
    /\ res.error # "" => fs = res.pre

\* open with O_NOFOLLOW met a symlink and failed with ELOOP
C12_Witness ==
  /\ res.op = "openSync"
  /\ LastIsSymlink
  /\ And(res.flags, O_NOFOLLOW)
  /\ res.error = "ELOOP"
  /\ fs = res.pre

(***************************************************************************)
(* C13.  Truncating open.  After open(path, 'w') or open(path, 'w+') the   *)
(* path names a regular file of size 0 with empty data, whether open made  *)
(* the file or it existed with content, and a close that follows leaves it *)
(* so; an open without O_TRUNC ('r', 'r+', 'a', 'a+') leaves the data of   *)
(* an existing file unchanged; every new descriptor starts at position 0.  *)
(***************************************************************************)
\* the inode object the descriptor returned by the call is on
Opening == fs.fdMgr.fds[res.ret].inode

MissingIntermediate ==
  /\ res.path[1] = Slash
  /\ Len(Segments(res.path)) >= 2
  /\ EntryPos(res.pre, res.pre.root, Segments(res.path)[1]) = 0

\* the call makes a name when it succeeds
MakesName ==
  \/ res.op = "openSync" /\ And(res.flags, O_CREAT)
  \/ res.op = "writeFileSync"
  \/ res.op = "symlinkSync"
  \/ /\ res.op = "linkSync"
     /\ lstatSync(res.pre, res.data).error = ""
     /\ lstatSync(res.pre, res.data).buffer[1].kind # "Directory"

C14_MissingIntermediate ==
  (MakesName /\ MissingIntermediate) =>
    /\ res.error = "ENOENT"
    /\ fs = res.pre

(***************************************************************************)
(* C15.  Symlink loop detection.  A resolution that comes to the same      *)
(* symlink inode a second time ends with ELOOP instead of going on for     *)
(* ever: for a symlink that names itself, for a cycle over several         *)
(* symlinks, and when the path goes on past the cycle to a name that does  *)
(* not exist.                                                              *)
(* Trace follows a path segment by segment through the tree, as the spec   *)
(* describes resolution: a relative link text continues from the directory *)
(* that holds the symlink, an absolute one from the root.  Paths with "."  *)
(* or ".." segments are left to the claims about them.                     *)
(***************************************************************************)
RECURSIVE Trace(_, _, _, _, _)
Trace(s, cur, segs, followLast, seen) ==
  IF segs = <<>> THEN [end |-> "found", at |-> cur]
  ELSE LET e == getEntry(s, cur, Head(segs))
           rest == Tail(segs)
       IN IF e = Undefined THEN [end |-> "missing", at |-> cur]
          ELSE IF IsSymlink(s, e)
            THEN IF rest = <<>> /\ ~followLast THEN [end |-> "found", at |-> e]
                 ELSE IF e \in seen THEN [end |-> "loop", at |-> e]
                 ELSE Trace(s,
                            IF s.inodes[e].link[1] = Slash THEN s.root ELSE cur,
                            Segments(s.inodes[e].link) \o rest,
                            followLast, seen \cup {e})
          ELSE IF IsDirectory(s, e) THEN Trace(s, e, rest, followLast, seen)
          ELSE IF rest = <<>> THEN [end |-> "found", at |-> e]
          ELSE [end |-> "missing", at |-> e]

\* the path has no "." and no ".." segment
Plain(path) ==
  \A i \in 1 .. Len(Segments(path)) : Segments(path)[i] \notin {Dot, DotDot}

\* the calls that resolve their path and follow a last symlink, and those
\* whose (first) resolution leaves it alone
Following == {"statSync", "readdirSync", "mkdirSync"}

NotFollowing ==
  {"lstatSync", "unlinkSync", "rmdirSync", "symlinkSync", "openSync",
   "readFileSync", "writeFileSync"}

\* where the path of the observed call leads in the state before it, in one
\* resolution (openSync first resolves without following a last symlink)
PreTrace ==
  Trace(res.pre, res.pre.root, Segments(res.path), res.op \in Following, {})

MaxFollow == 8

RECURSIVE Follow(_, _, _, _)
Follow(s, cur, segs, links) ==
  IF segs = <<>> THEN [end |-> "found", at |-> cur, links |-> links]
  ELSE LET e == getEntry(s, cur, Head(segs))
           rest == Tail(segs)
       IN IF e = Undefined THEN [end |-> "missing", at |-> cur, links |-> links]
          ELSE IF IsSymlink(s, e)
            THEN IF links = MaxFollow
                   THEN [end |-> "loop", at |-> e, links |-> links]
                   ELSE Follow(s,
                               IF s.inodes[e].link[1] = Slash
                                 THEN s.root ELSE cur,
                               Segments(s.inodes[e].link) \o rest, links + 1)
          ELSE IF IsDirectory(s, e) THEN Follow(s, e, rest, links)
          ELSE IF rest = <<>> THEN [end |-> "found", at |-> e, links |-> links]
          ELSE [end |-> "missing", at |-> e, links |-> links]

\* where path leads in state s, every symlink followed
Leads(s, path) == Follow(s, s.root, Segments(path), 0)

\* the three calls of the claim, by name
Look(s, op, pathS) ==
  CASE op = "statSync" -> statSync(s, pathS)
    [] op = "readdirSync" -> readdirSync(s, pathS)
    [] op = "readFileSync" -> readFileSyncPath(s, pathS, FALSE)

\* the observed call went through a chain of symlinks that ends
ThroughChain ==
  /\ res.op \in {"statSync", "readdirSync", "readFileSync"}
  /\ res.path # <<>>
  /\ Plain(res.path)
  /\ Leads(res.pre, res.path).end = "found"
  /\ Leads(res.pre, res.path).links > 0

\* the paths that lead to the same object through no symlink
DirectPaths ==
  {q \in TreePaths :
     /\ Plain(q)
     /\ Leads(res.pre, q).end = "found"
     /\ Leads(res.pre, q).links = 0
     /\ Leads(res.pre, q).at = Leads(res.pre, res.path).at}

C16_SymlinkChainResolution ==
  ThroughChain =>
    \A q \in DirectPaths :
      /\ Look(res.pre, res.op, q).error = res.error
      /\ Look(res.pre, res.op, q).buffer = res.buffer

(***************************************************************************)
(* C17.  unlink does not follow symlinks.  unlink of a path whose last     *)
(* component is a symlink succeeds and removes that one directory entry:   *)
(* the directory that held it loses the entry and nothing else, every      *)
(* other object but the symlink itself is as before (the target's entries  *)
(* and data among them), and every path that led to an object through no   *)
(* symlink still leads there, so the target is still listed in its parent. *)
(***************************************************************************)
\* the symlink that the call's path names, as an object of the state before
PreSymlink == getINode(res.pre, PreLstat.buffer[1].ino)

\* directory d of the state before held the symlink at position i under the
\* last segment of the call's path, and has lost just that entry
LostEntry(d, i) ==
  /\ res.pre.inodes[d].entries[i].index = PreLstat.buffer[1].ino
  /\ res.pre.inodes[d].entries[i].name =
       Segments(res.path)[Len(Segments(res.path))]
  /\ fs.inodes[d] = [res.pre.inodes[d] EXCEPT !.entries = RemoveAt(@, i)]

\* all objects but the symlink and directory d are as before
OthersKept(d) ==
  /\ Len(fs.inodes) = Len(res.pre.inodes)
  /\ \A o \in 1 .. Len(res.pre.inodes) :
       (o # d /\ o # PreSymlink) => fs.inodes[o] = res.pre.inodes[o]

\* the paths that led somewhere through no symlink lead there still
DirectKept ==
  \A q \in TreePaths :
    (/\ Plain(q)
     /\ Leads(res.pre, q).end = "found"
     /\ Leads(res.pre, q).links = 0) =>
      /\ statSync(fs, q).error = ""
      /\ statSync(fs, q).buffer = statSync(res.pre, q).buffer
      /\ readdirSync(fs, q).buffer = readdirSync(res.pre, q).buffer
           \/ \E d \in 1 .. Len(res.pre.inodes), i \in 1 .. MaxTreeInodes + 2 :
                /\ Leads(res.pre, q).at = d
                /\ i <= Len(res.pre.inodes[d].entries)
                /\ LostEntry(d, i)

C17_UnlinkKeepsTarget ==
  (res.op = "unlinkSync" /\ LastIsSymlink) =>
    /\ res.error = ""
    /\ lstatSync(fs, res.path).error = "ENOENT"
    /\ \E d \in 1 .. Len(res.pre.inodes) :
         /\ IsDirectory(res.pre, d)
         /\ \E i \in 1 .. Len(res.pre.inodes[d].entries) : LostEntry(d, i)
         /\ OthersKept(d)
    /\ DirectKept

\* the symlink that is unlinked leads to a file or directory
C17_Witness ==
  /\ res.op = "unlinkSync"
  /\ LastIsSymlink
  /\ PreStat.error = ""
  /\ res.error = ""
  /\ statSync(fs, res.path).error = "ENOENT"

(***************************************************************************)
(* C18.  Hard links share one inode.  After link(a, b) of a regular file   *)
(* has succeeded, stat of a and of b name the same inode, readFile gives   *)
(* the same bytes for both, bytes written through one name are read        *)
(* through the other, and when one name is unlinked the other still leads  *)
(* to the same data.                                                       *)
(***************************************************************************)
\* the directory that is to hold the new name exists in the state before
ParentFound ==
  LET segs == Segments(res.path)
      parent == Follow(res.pre, res.pre.root, SubSeq(segs, 1, Len(segs) - 1), 0)
  IN /\ segs # <<>>
     /\ parent.end = "found"
     /\ IsDirectory(res.pre, parent.at)

\* the observed call is a link of a regular file that succeeded
Linked ==
  /\ res.op = "linkSync"
  /\ res.error = ""
  /\ Plain(res.path)
  /\ ParentFound
  /\ lstatSync(res.pre, res.data).error = ""
  /\ lstatSync(res.pre, res.data).buffer[1].kind = "File"

SameInode ==
  /\ statSync(fs, res.data).error = ""
  /\ statSync(fs, res.path).error = ""
  /\ statSync(fs, res.data).buffer[1].ino = statSync(fs, res.path).buffer[1].ino

SameBytes ==
  /\ readFileSyncPath(fs, res.data, FALSE).error = ""
  /\ readFileSyncPath(fs, res.path, FALSE).error = ""
  /\ readFileSyncPath(fs, res.data, FALSE).buffer =
       readFileSyncPath(fs, res.path, FALSE).buffer

\* bytes written through name one are read through name other
WrittenThrough(one, other, bytes) ==
  /\ writeFileSyncPath(fs, one, bytes).error = ""
  /\ readFileSyncPath(writeFileSyncPath(fs, one, bytes).fs, other, FALSE).error
       = ""
  /\ readFileSyncPath(writeFileSyncPath(fs, one, bytes).fs, other, FALSE).buffer
       = bytes

\* name other still leads to the same inode and bytes once name one is gone
LeftAfterUnlink(one, other) ==
  /\ unlinkSync(fs, one).error = ""
  /\ statSync(unlinkSync(fs, one).fs, other).error = ""
  /\ statSync(unlinkSync(fs, one).fs, other).buffer[1].ino =
       statSync(fs, other).buffer[1].ino
  /\ readFileSyncPath(unlinkSync(fs, one).fs, other, FALSE).buffer =
       readFileSyncPath(fs, other, FALSE).buffer

C18_HardLinksShareInode ==
  Linked =>
    /\ SameInode
    /\ SameBytes
    /\ WrittenThrough(res.data, res.path, <<3>>)
    /\ WrittenThrough(res.path, res.data, <<3>>)
    /\ LeftAfterUnlink(res.data, res.path)
    /\ LeftAfterUnlink(res.path, res.data)

(***************************************************************************)
(* C19.  link error outcomes.  link(target, newPath) fails with ENOENT     *)
(* when target does not exist, with EPERM when target is a directory, with *)
(* ENOENT when the parent of newPath does not exist and with EEXIST when   *)
(* newPath names something already; a link that fails adds no entry and    *)
(* changes no link count.                                                  *)
(***************************************************************************)
\* lstat of the link's target in the state before the call
PreTarget == lstatSync(res.pre, res.data)

\* the errors the rules give for the observed link; several rules may apply
LinkErrors ==
  (IF PreTarget.error # "" THEN {"ENOENT"} ELSE {})
    \cup (IF PreTarget.error = "" /\ PreTarget.buffer[1].kind = "Directory"
            THEN {"EPERM"} ELSE {})
    \cup (IF Segments(res.path) # <<>> /\ ~ParentFound
            THEN {"ENOENT"} ELSE {})
    \cup (IF PreLstat.error = "" THEN {"EEXIST"} ELSE {})

C19_LinkErrorOutcomes ==
  (res.op = "linkSync" /\ Plain(res.path) /\ Plain(res.data)) =>
    /\ LinkErrors # {} => res.error \in LinkErrors
    /\ res.error # "" => fs = res.pre

(***************************************************************************)
(* C20.  The root is protected.  In every state the root exists, is a      *)
(* directory and is its own parent; mkdir of a path that leads to the root *)
(* fails with EEXIST, unlink of such a path fails, and rmdir or rename of  *)
(* such a path ("/", "/.", "/..", "d/..") fails with EBUSY and changes     *)
(* nothing.                                                                *)
(***************************************************************************)
\* path leads to the root in the state before the call, a last symlink not
\* followed
ToRoot(path) ==
  /\ Trace(res.pre, res.pre.root, Segments(path), FALSE, {}).end = "found"
  /\ Trace(res.pre, res.pre.root, Segments(path), FALSE, {}).at = res.pre.root

RootStands ==
  /\ IsDirectory(fs, fs.root)
  /\ getINode(fs, fs.inodes[fs.root].ino) = fs.root
  /\ getEntry(fs, fs.root, Dot) = fs.root
  /\ getEntry(fs, fs.root, DotDot) = fs.root

C20_RootProtected ==
  /\ RootStands
  /\ (res.op = "mkdirSync" /\ ToRoot(res.path)) => res.error = "EEXIST"
  /\ (res.op = "unlinkSync" /\ ToRoot(res.path)) => res.error # ""
  /\ (res.op = "rmdirSync" /\ ToRoot(res.path)) =>
       res.error = "EBUSY" /\ fs = res.pre
  /\ (res.op = "renameSync" /\ (ToRoot(res.path) \/ ToRoot(res.data))) =>
       res.error = "EBUSY" /\ fs = res.pre

(***************************************************************************)
(* C21.  rmdir rules.  rmdir(p), p not the root, fails with ENOENT when p  *)
(* does not resolve, with ENOTDIR when p is not a directory (a symlink to  *)
(* a directory is not followed) and with ENOTEMPTY when the directory has  *)
(* an entry besides "." and "..".  Otherwise it removes the entry p from   *)
(* its parent and no other entry: exists(p) is false, access(p) and        *)
(* readdir(p) fail with ENOENT, and readdir of the parent lists the        *)
(* siblings in the order they had.                                         *)
(***************************************************************************)
\* where the path of the observed call leads, a last symlink not followed
PreLeaf == Trace(res.pre, res.pre.root, Segments(res.path), FALSE, {})

\* the last segment of a path, and the path of its parent directory
LastSegment(path) == Segments(path)[Len(Segments(path))]

ParentPath(path) ==
  IF Len(Segments(path)) = 2 THEN <<Slash>> \o Segments(path)[1]
  ELSE <<Slash>>

\* rmdir is observed on a plain path that is not the root
RmdirObserved ==
  /\ res.op = "rmdirSync"
  /\ Plain(res.path)
  /\ Segments(res.path) # <<>>

\* the observed rmdir meets an empty directory
EmptyDirectory ==
  /\ PreLeaf.end = "found"
  /\ IsDirectory(res.pre, PreLeaf.at)
  /\ Len(res.pre.inodes[PreLeaf.at].entries) = 2

\* directory d has lost the entry at position i, which named the object at;
\* every other directory has the entries it had
OnlyEntryLost(d, i, at) ==
  /\ res.pre.inodes[d].entries[i].name = LastSegment(res.path)
  /\ res.pre.inodes[d].entries[i].index = res.pre.inodes[at].ino
  /\ fs.inodes[d].entries = RemoveAt(res.pre.inodes[d].entries, i)
  /\ Len(fs.inodes) = Len(res.pre.inodes)
  /\ \A o \in 1 .. Len(res.pre.inodes) :
       (o # d /\ o # at) => fs.inodes[o].entries = res.pre.inodes[o].entries

Removed ==
  /\ res.error = ""
  /\ \E d \in 1 .. Len(res.pre.inodes) :
       \E i \in 1 .. Len(res.pre.inodes[d].entries) :
         OnlyEntryLost(d, i, PreLeaf.at)
  /\ existsSync(fs, res.path).ret = 0
  /\ accessSync(fs, res.path).error = "ENOENT"
  /\ readdirSync(fs, res.path).error = "ENOENT"
  /\ readdirSync(fs, ParentPath(res.path)).error = ""
  /\ readdirSync(fs, ParentPath(res.path)).buffer =
       SelectSeq(readdirSync(res.pre, ParentPath(res.path)).buffer,
                 LAMBDA n : n # LastSegment(res.path))

C21_RmdirRules ==
  RmdirObserved =>
    /\ PreLeaf.end = "missing" => res.error = "ENOENT"
    /\ (PreLeaf.end = "found" /\ ~IsDirectory(res.pre, PreLeaf.at))
         => res.error = "ENOTDIR"
    /\ (/\ PreLeaf.end = "found"
        /\ IsDirectory(res.pre, PreLeaf.at)
        /\ Len(res.pre.inodes[PreLeaf.at].entries) > 2)
         => res.error = "ENOTEMPTY"
    /\ EmptyDirectory => Removed
    /\ res.error # "" => fs = res.pre

\* an empty directory beside another name is removed
C21_Witness ==
  /\ RmdirObserved
  /\ EmptyDirectory
  /\ Len(readdirSync(res.pre, ParentPath(res.path)).buffer) >= 2
  /\ res.error = ""
  /\ statSync(fs, res.path).error = "ENOENT"

(***************************************************************************)
(* C22.  rename error outcomes.  rename(old, new), neither being the root, *)
(* fails with ENOENT when old does not exist, with EISDIR when old is a    *)
(* file and new an existing directory, with ENOTDIR when old is a          *)
(* directory and new exists without being one, and with ENOTEMPTY when new *)
(* is an existing directory that has an entry besides "." and "..".  A     *)
(* rename that fails moves nothing.  (old and new are different objects.)   *)
(***************************************************************************)
\* where the new path of the observed rename leads, a last symlink not
\* followed
NewLeaf == Trace(res.pre, res.pre.root, Segments(res.data), FALSE, {})

RenameObserved ==
  /\ res.op = "renameSync"
  /\ Plain(res.path) /\ Segments(res.path) # <<>>
  /\ Plain(res.data) /\ Segments(res.data) # <<>>
  /\ PreLeaf.end # "loop"
  /\ NewLeaf.end # "loop"
  /\ (PreLeaf.end = "found" /\ NewLeaf.end = "found") => PreLeaf.at # NewLeaf.at

NewIsDirectory == NewLeaf.end = "found" /\ IsDirectory(res.pre, NewLeaf.at)

\* the errors the rules give for the observed rename; several may apply
RenameErrors ==
  (IF PreLeaf.end = "missing" THEN {"ENOENT"} ELSE {})
    \cup (IF /\ PreLeaf.end = "found" /\ IsFile(res.pre, PreLeaf.at)
             /\ NewIsDirectory
            THEN {"EISDIR"} ELSE {})
    \cup (IF /\ PreLeaf.end = "found" /\ IsDirectory(res.pre, PreLeaf.at)
             /\ NewLeaf.end = "found" /\ ~IsDirectory(res.pre, NewLeaf.at)
            THEN {"ENOTDIR"} ELSE {})
    \cup (IF NewIsDirectory /\ Len(res.pre.inodes[NewLeaf.at].entries) > 2
            THEN {"ENOTEMPTY"} ELSE {})

C22_RenameErrorOutcomes ==
  RenameObserved =>
    /\ RenameErrors # {} => res.error \in RenameErrors
    /\ res.error # "" => fs = res.pre

(***************************************************************************)
(* C23.  rename effect and round trip.  After rename(a, b) has succeeded,  *)
(* a no longer resolves and b names the inode that a named, with the data  *)
(* it had, in one directory or across directories, b new or overwritten.   *)
(* For a file a and an absent b in the same directory, rename(a, b) and    *)
(* then rename(b, a) give the tree there was: same names, same inodes,     *)
(* same link counts.                                                       *)
(***************************************************************************)
\* the entries of directory object o of state s, as a set
EntrySet(s, o) ==
  {s.inodes[o].entries[i] : i \in 1 .. Len(s.inodes[o].entries)}

\* two states hold the same tree: the same inodes with the same names
SameTree(s1, s2) ==
  /\ s1.inodeMgr.inodes = s2.inodeMgr.inodes
  /\ s1.root = s2.root
  /\ Len(s1.inodes) = Len(s2.inodes)
  /\ \A o \in 1 .. Len(s1.inodes) :
       /\ [s1.inodes[o] EXCEPT !.entries = <<>>] =
            [s2.inodes[o] EXCEPT !.entries = <<>>]
       /\ EntrySet(s1, o) = EntrySet(s2, o)
       /\ Len(s1.inodes[o].entries) = Len(s2.inodes[o].entries)

\* a rename that the rules allow has succeeded
Renamed == RenameObserved /\ RenameErrors = {} /\ res.error = ""

\* a file goes to an absent name of its own directory
RenamedBeside ==
  /\ Renamed
  /\ IsFile(res.pre, PreLeaf.at)
  /\ NewLeaf.end = "missing"
  /\ ParentPath(res.path) = ParentPath(res.data)

C23_RenameEffect ==
  /\ Renamed =>
       /\ lstatSync(fs, res.path).error = "ENOENT"
       /\ lstatSync(fs, res.data).error = ""
       /\ lstatSync(fs, res.data).buffer[1].ino = PreLstat.buffer[1].ino
       /\ fs.inodes[PreLeaf.at].data = res.pre.inodes[PreLeaf.at].data
  /\ RenamedBeside =>
       /\ renameSync(fs, res.data, res.path).error = ""
       /\ SameTree(renameSync(fs, res.data, res.path).fs, res.pre)

(***************************************************************************)
(* C24.  readdir listing.  readdir of a directory gives the names of its   *)
(* entries other than "." and "..", each once, in the order in which they  *)
(* were entered: a call that makes a name puts it last, a call that        *)
(* removes a name leaves the others in their order, a rename takes the old *)
(* name away and lists the new one.  On a new filesystem readdir("/") is   *)
(* empty.                                                                  *)
(***************************************************************************)
\* the names of a listing
Names(listing) == {listing[i] : i \in 1 .. Len(listing)}

\* a listing without the name n
Without(listing, n) == SelectSeq(listing, LAMBDA m : m # n)

\* the listing of the directory at path q in state s is well formed
WellListed(s, q) ==
  readdirSync(s, q).error = "" =>
    /\ Dot \notin Names(readdirSync(s, q).buffer)
    /\ DotDot \notin Names(readdirSync(s, q).buffer)
    /\ Cardinality(Names(readdirSync(s, q).buffer)) =
         Len(readdirSync(s, q).buffer)

\* the listings of the parent of path before and after the observed call
ListedBefore(path) == readdirSync(res.pre, ParentPath(path)).buffer

ListedAfter(path) == readdirSync(fs, ParentPath(path)).buffer

\* the observed call has made the name its plain path gives, in a directory
\* that was there
NameMade ==
  /\ res.op \in {"mkdirSync", "symlinkSync", "linkSync", "openSync"}
  /\ res.error = ""
  /\ Plain(res.path)
  /\ ParentFound
  /\ PreLeaf.end = "missing"

\* the observed call has removed the name its plain path gives
NameRemoved ==
  /\ res.op \in {"unlinkSync", "rmdirSync"}
  /\ res.error = ""
  /\ Plain(res.path)
  /\ Segments(res.path) # <<>>

C24_ReaddirListing ==
  /\ \A q \in TreePaths : WellListed(fs, q)
  /\ fs = VirtualFS => readdirSync(fs, <<Slash>>).buffer = <<>>
  /\ NameMade =>
       ListedAfter(res.path) =
         Append(ListedBefore(res.path), LastSegment(res.path))
  /\ NameRemoved =>
       ListedAfter(res.path) =
         Without(ListedBefore(res.path), LastSegment(res.path))
  /\ Renamed =>
       /\ LastSegment(res.path) \notin
            Names(ListedAfter(res.path)) \ {LastSegment(res.data)}
       /\ LastSegment(res.data) \in Names(ListedAfter(res.data))
       /\ Names(ListedAfter(res.data)) \subseteq
            Names(ListedBefore(res.data)) \cup {LastSegment(res.data)}
       /\ Without(Without(ListedAfter(res.data), LastSegment(res.data)),
                  LastSegment(res.path)) =
            Without(Without(ListedBefore(res.data), LastSegment(res.data)),
                    LastSegment(res.path))

(***************************************************************************)
(* C25.  mkdirp.  mkdirp(p) makes every missing component of p a directory *)
(* so that afterwards every prefix of p is a directory; it fails with      *)
(* ENOTDIR when a component of p that exists is not a directory;           *)
(* mkdirp("/") changes nothing; a second mkdirp(p) succeeds and leaves the *)
(* state as the first left it.                                             *)
(***************************************************************************)
\* the path made of the first k segments of an absolute path
PrefixPath(path, k) ==
  IF k = 2 THEN <<Slash>> \o Segments(path)[1] \o <<Slash>> \o Segments(path)[2]
  ELSE IF k = 1 THEN <<Slash>> \o Segments(path)[1]
  ELSE <<Slash>>

\* mkdirp is observed on a plain absolute path whose resolution ends
MkdirpObserved ==
  /\ res.op = "mkdirpSync"
  /\ Plain(res.path)
  /\ res.path[1] = Slash
  /\ \A k \in 0 .. Len(Segments(res.path)) :
       /\ Leads(res.pre, PrefixPath(res.path, k)).end # "loop"
       /\ Trace(res.pre, res.pre.root, Segments(PrefixPath(res.path, k)),
                TRUE, {}).end # "loop"

\* a prefix of the path leads to something that is not a directory
ComponentNotDirectory ==
  \E k \in 1 .. Len(Segments(res.path)) :
    /\ Leads(res.pre, PrefixPath(res.path, k)).end = "found"
    /\ ~IsDirectory(res.pre, Leads(res.pre, PrefixPath(res.path, k)).at)

\* in state s every prefix of the path is a directory
PrefixesAreDirectories(s) ==
  \A k \in 0 .. Len(Segments(res.path)) :
    /\ statSync(s, PrefixPath(res.path, k)).error = ""
    /\ statSync(s, PrefixPath(res.path, k)).buffer[1].kind = "Directory"

C25_Mkdirp ==
  MkdirpObserved =>
    /\ ComponentNotDirectory => res.error = "ENOTDIR"
    /\ ~ComponentNotDirectory =>
         /\ res.error = ""
         /\ PrefixesAreDirectories(fs)
         /\ mkdirpSync(fs, res.path).error = ""
         /\ mkdirpSync(fs, res.path).fs = fs
    /\ Segments(res.path) = <<>> => fs = res.pre
    /\ PrefixesAreDirectories(res.pre) => fs = res.pre

\* two missing components are made
C25_Witness ==
  /\ MkdirpObserved
  /\ Len(Segments(res.path)) = 2
  /\ Leads(res.pre, PrefixPath(res.path, 1)).end = "missing"
  /\ res.error = ""
  /\ Len(fs.inodes) = Len(res.pre.inodes) + 2

(***************************************************************************)
(* C26.  writeFile/readFile round trip.  For a path that names a regular   *)
(* file, or is absent in a directory that exists, and for any bytes, the   *)
(* empty string among them, writeFileSync succeeds and readFileSync of the *)
(* path then returns just those bytes.                                     *)
(***************************************************************************)
\* the path of the observed call names a regular file or a free name of a
\* directory that exists
Writable ==
  /\ Plain(res.path)
  /\ Segments(res.path) # <<>>
  /\ \/ /\ Leads(res.pre, res.path).end = "found"
        /\ IsFile(res.pre, Leads(res.pre, res.path).at)
     \/ PreLeaf.end = "missing" /\ ParentFound

C26_WriteReadRoundTrip ==
  (res.op = "writeFileSync" /\ res.path # <<>> /\ Writable) =>
    /\ res.error = ""
    /\ readFileSyncPath(fs, res.path, FALSE).error = ""
    /\ readFileSyncPath(fs, res.path, FALSE).buffer = res.data

\* the calls that take a path and open a descriptor of their own
OpensInternally ==
  {"readFileSync", "writeFileSync", "appendFileSync", "truncateSync"}

\* C27: a call of readFileSync, writeFileSync, appendFileSync or
\* truncateSync on a path leaves the table of open descriptors as it was
\* before the call, whether it returned or raised an error
C27_DescriptorRelease ==
  res.op \in OpensInternally => fs.fdMgr.fds = res.pre.fdMgr.fds

\* the calls that change the tree or the descriptor table
Mutating ==
  {"mkdirSync", "mkdirpSync", "openSync", "writeFileSync", "appendFileSync",
   "symlinkSync", "linkSync", "unlinkSync", "rmdirSync", "renameSync"}

\* the same inodes under the same ids, with the same entries, data and
\* link counts, and the same descriptor table
SameContents(s, t) ==
  /\ s.inodeMgr.inodes = t.inodeMgr.inodes
  /\ s.inodes = t.inodes
  /\ s.fdMgr.fds = t.fdMgr.fds

\* C28: when mkdirSync, mkdirpSync, openSync, writeFileSync,
\* appendFileSync, symlinkSync, linkSync, unlinkSync, rmdirSync or
\* renameSync raises an error, the inodes, their entries, data and link
\* counts and the descriptor table are what they were before the call
C28_NoPartialMutation ==
  (res.op \in Mutating /\ res.error # "") => SameContents(fs, res.pre)

\* the inode behind descriptor fdIndex in state s
FdINode(s, fdIndex) == s.fdMgr.fds[fdIndex].inode

\* a call of appendFileSync on an open descriptor of a regular file that
\* may write and was opened without O_APPEND
AppendObserved ==
  /\ res.op = "appendFileSync"
  /\ HasFd(res.pre, res.fd)
  /\ IsFile(res.pre, FdINode(res.pre, res.fd))
  /\ And(res.pre.fdMgr.fds[res.fd].flags, O_WRONLY \cup O_RDWR)
  /\ ~And(res.pre.fdMgr.fds[res.fd].flags, O_APPEND)

\* C30: appendFileSync(fd, d) on a writable descriptor opened without
\* O_APPEND returns and leaves the file's data equal to its data before the
\* call followed by d, whatever the descriptor's position
C30_AppendFileAppends ==
  AppendObserved =>
    /\ res.error = ""
    /\ fs.inodes[FdINode(res.pre, res.fd)].data
         = res.pre.inodes[FdINode(res.pre, res.fd)].data \o res.data

\* the callback-form calls made so far
CallIds == 1 .. Len(loop.calls)

\* the immediates of call id in the sequence q
Of(q, id) == { i \in 1 .. Len(q) : q[i].id = id }

Pending(id) == Of(loop.immediates, id) # {}

Invoked(id) == Of(loop.invoked, id) # {}

\* the synchronous function of the last callback-form call, run again on
\* the state before it
SyncOutcome ==
  CASE res.op = "mkdir"  -> mkdirSync(res.pre, res.path)
    [] res.op = "rmdir"  -> rmdirSync(res.pre, res.path)
    [] res.op = "exists" -> existsSync(res.pre, res.path)
    [] res.op = "access" -> accessSync(res.pre, res.path)

\* once a callback-form call has returned, the state is the one its
\* synchronous function left and no tick changes it
CompleteAtReturn == res.op # "new" => fs = SyncOutcome.fs

\* every call has one immediate, waiting or run, and never two
OnePerCall ==
  \A id \in CallIds :
    Cardinality(Of(loop.immediates, id)) + Cardinality(Of(loop.invoked, id)) = 1

\* the error the synchronous function raised is the argument of the callback
ErrorPassed ==
  \A id \in CallIds :
    loop.calls[id] # "" =>
      /\ \A i \in Of(loop.immediates, id) : loop.immediates[i].err = loop.calls[id]
      /\ \A i \in Of(loop.invoked, id) : loop.invoked[i].err = loop.calls[id]

\* the step in which a callback-form call is made and returns invokes no
\* callback
NotBeforeReturn == loop'.calls # loop.calls => loop'.invoked = loop.invoked

Live(s) == DOMAIN s.inodeMgr.inodes

\* the directory entries of state s that refer to inode id index: pairs of
\* a directory in the store and a position among its entries
Refs(s, index) ==
  { <<d, i>> \in Live(s) \X (1 .. MaxTreeInodes + 2) :
      /\ IsDirectory(s, getINode(s, d))
      /\ i <= Len(s.inodes[getINode(s, d)].entries)
      /\ s.inodes[getINode(s, d)].entries[i].index = index }

\* the link count of inode id index in state s
Nlink(s, index) == s.inodes[getINode(s, index)].nlink

\* the files and symlinks that are in the store before and after the last
\* call
Surviving ==
  { index \in Live(res.pre) \cap Live(fs) :
      /\ ~IsDirectory(res.pre, getINode(res.pre, index))
      /\ getINode(res.pre, index) = getINode(fs, index) }

\* C31: nlink counts the directory entries that refer to the inode (and the
\* descriptors that keep it alive).  Stated for every call that leaves the
\* descriptor table alone: the link count of a file or symlink changes by
\* exactly as much as the number of entries referring to it, so linkSync
\* raises it by one for the one entry it adds
C31_LinkCount ==
  (res.op # "new" /\ fs.fdMgr.fds = res.pre.fdMgr.fds) =>
    \A index \in Surviving :
      Nlink(fs, index) - Nlink(res.pre, index)
        = Cardinality(Refs(fs, index)) - Cardinality(Refs(res.pre, index))

\* the entries of state s that give directory id index a name of its own:
\* the entries referring to it other than "." and ".."
Holders(s, index) ==
  { h \in Refs(s, index) :
      s.inodes[getINode(s, h[1])].entries[h[2]].name \notin {Dot, DotDot} }

\* the id of the root directory
RootIndex(s) == s.inodes[s.root].ino

\* the directories of state s that are the root or have a name
Named(s) ==
  { index \in Live(s) :
      /\ IsDirectory(s, getINode(s, index))
      /\ (index = RootIndex(s) \/ Holders(s, index) # {}) }

\* directory id index has "." for itself and ".." for the directory that
\* holds its name, and no second name
SelfAndParent(s, index) ==
  /\ getEntryIndex(s, getINode(s, index), Dot) = index
  /\ IF index = RootIndex(s)
       THEN /\ getEntryIndex(s, s.root, DotDot) = index
            /\ Holders(s, index) = {}
       ELSE /\ Cardinality(Holders(s, index)) = 1
            /\ \A h \in Holders(s, index) :
                 getEntryIndex(s, getINode(s, index), DotDot) = h[1]

\* C32: in every state, the root and every directory that has a name has
\* an entry "." referring to itself and an entry ".." referring to the
\* directory that holds its name (the root for the root), and is held by
\* exactly one entry other than "." and ".."
C32_SelfAndParentEntries ==
  \A index \in Named(fs) : SelfAndParent(fs, index)

\* the result of the observed _navigate call
Result == res.buffer[1]

\* the observed call is _navigate on an absolute path written with single
\* separators and no trailing one
NavigateObserved ==
  /\ res.op = "_navigate"
  /\ res.path[1] = Slash
  /\ JoinSegs(Segments(res.path)) = Tail(res.path)

\* the walk from directory cur along segs through directories only: where
\* it stops and the segments left, the first of them the one looked up last
RECURSIVE Reach(_, _, _)
Reach(s, cur, segs) ==
  IF segs = <<>> THEN [end |-> "found", dir |-> cur, segs |-> segs]
  ELSE IF getEntry(s, cur, Head(segs)) = Undefined
    THEN [end |-> "missing", dir |-> cur, segs |-> segs]
  ELSE IF IsDirectory(s, getEntry(s, cur, Head(segs)))
    THEN Reach(s, getEntry(s, cur, Head(segs)), Tail(segs))
  ELSE [end |-> "other", dir |-> cur, segs |-> segs]

PreReach == Reach(res.pre, res.pre.root, Segments(res.path))

\* C33: when the walk reaches a directory that has no entry for the
\* current segment, _navigate returns that directory as dir and no target;
\* with nothing left of the path the name is the segment and remaining is
\* empty, with something left the name is null and remaining is the rest
C33_MissingEntryResult ==
  (NavigateObserved /\ PreReach.end = "missing") =>
    /\ res.error = ""
    /\ Result.dir = PreReach.dir
    /\ Result.target = Undefined
    /\ IF Len(PreReach.segs) = 1
         THEN /\ ~Result.nameNull
              /\ Result.name = PreReach.segs[1]
              /\ Result.remaining = <<>>
         ELSE /\ Result.nameNull
              /\ Result.remaining = JoinSegs(Tail(PreReach.segs))

\* id is beneath a child that exists in the tree of Counter c, and its bit
\* is set in its leaf
Recorded(c, id) ==
  /\ lookupCounter(c.bitMapTree, <<>>, id - c.begin).found
  /\ isSet(Sub(c.bitMapTree,
               lookupCounter(c.bitMapTree, <<>>, id - c.begin).leaf).bitMap,
           lookupCounter(c.bitMapTree, <<>>, id - c.begin).index)

\* C34: with allowShrinking, deallocate removes children under which no id
\* is allocated only, so that every id still held stays recorded in the
\* tree, and it leaves the first child of the root in place
C34_ShrinkingKeepsHeldIds ==
  (last.op = "deallocate" /\ counter.allowShrinking) =>
    /\ \A id \in held : Recorded(counter, id)
    /\ counter.bitMapTree.kind = "Node" => Len(counter.bitMapTree.bitMapTrees) >= 1

(***************************************************************************)
(* The bitmap tree against the set of held ids: the paths of the trees of  *)
(* a bitmap tree, the ids beneath one of them, and whether all are held.   *)
(***************************************************************************)
RECURSIVE TreePathsOf(_, _)
TreePathsOf(t, p) ==
  {p} \cup UNION { TreePathsOf(t, Append(p, i)) : i \in 0 .. Len(Sub(t, p).bitMapTrees) - 1 }

IdsBeneath(c, n) ==
  { c.begin + n.begin + k : k \in 0 .. Pow(blockSize, n.depth + 1) - 1 }

BitStands(c, n, i) ==
  IF n.kind = "Leaf"
    THEN isSet(n.bitMap, i) <=> (c.begin + n.begin + i) \in held
    ELSE isSet(n.bitMap, i) <=>
           /\ i < Len(n.bitMapTrees)
           /\ IdsBeneath(c, n.bitMapTrees[i + 1]) \subseteq held

BitMapTreeStands ==
  \A p \in TreePathsOf(counter.bitMapTree, <<>>) :
    \A i \in 0 .. blockSize - 1 : BitStands(counter, Sub(counter.bitMapTree, p), i)

\* C35: in every state each bit of an interior node is set exactly when that child exists and every id beneath it is held, each bit of a leaf is set exactly when its id is held, and deallocate of an id that is not held changes nothing
C35_BitMapTreeInvariant ==
  /\ []BitMapTreeStands
  /\ [][\A id \in IdRange :
          (id \notin held /\ last'.op = "deallocate" /\ last'.id = id) => counter' = counter]_vars

\* the ways of writing a path p that the source takes to name the same
\* place from the root: a leading "/", "//", "./" or "../" or none, and a
\* trailing "/" or none
Spellings(p) ==
  { prefix \o p \o suffix :
      prefix \in { <<>>, <<Slash>>, <<Slash, Slash>>, <<".", Slash>>, <<".", ".", Slash>> },
      suffix \in { <<>>, <<Slash>> } }

\* a result of _navigate with the part of the path left unwalked written
\* with single separators and no trailing one
Settled(navigated) == [navigated EXCEPT !.remaining = JoinSegs(Segments(@))]

\* C36: navigating any spelling of a path p of one or more segments gives what navigating "/p" gives: only the leading prefix is stripped, the separators between the segments stay, a trailing "/" is tolerated
C36_PathCanonicalisation ==
  \A p \in { <<"a">>, <<"b", Slash, "a">> } :
    (res.op = "_navigate" /\ res.path \in Spellings(p)) =>
      Settled(Result) = Settled(_navigate(res.pre, <<Slash>> \o p, res.ret = 1))

(***************************************************************************)
(* Specification SpecRead: readFileSync on files that hold bytes.  As in   *)
(* SpecIO the file /a is put in place by the same steps openSync takes,    *)
(* here with zero to ChunkLen + 1 bytes, so that files shorter than a      *)
(* chunk, of exactly one chunk and longer than a chunk are all read.  The  *)
(* calls are openSync, readSync (which moves the position of a descriptor) *)
(* and readFileSync by descriptor and by path.                             *)
(***************************************************************************)
InitRead ==
  /\ \E n \in 0 .. ChunkLen + 1 : fs = Seeded([i \in 1 .. n |-> i])
  /\ res = NoCall
  /\ counter = Counter(0, FALSE)
  /\ held = {}
  /\ last = [op |-> "new", id |-> 0, error |-> FALSE, heldBefore |-> {}]
  /\ loop = EventLoop

NextRead == Open \/ Read \/ ReadFileFd \/ ReadFilePath

SpecRead == InitRead /\ [][NextRead]_vars

\* the bytes of the file behind descriptor fdIndex from the position of the
\* descriptor to the end of the file
RestOfFile(s, fdIndex) ==
  SubSeq(s.inodes[FdINode(s, fdIndex)].data,
         s.fdMgr.fds[fdIndex].pos + 1,
         Len(s.inodes[FdINode(s, fdIndex)].data))

\* C37: readFileSync of a regular file, by descriptor or by path, whatever the length of the file, returns, and returns the bytes from the starting position to the end of the file
C37_ReadFileCompletes ==
  /\ (/\ res.op = "readFileSync" /\ res.path = <<>> /\ res.flags = {}
      /\ HasFd(res.pre, res.fd) /\ IsFile(res.pre, FdINode(res.pre, res.fd)))
       => (res.error = "" /\ res.buffer = RestOfFile(res.pre, res.fd))
  /\ (res.op = "readFileSync" /\ res.path = <<Slash, "a">>)
       => (res.error = "" /\ res.buffer = res.pre.inodes[getEntry(res.pre, res.pre.root, <<"a">>)].data)

\* the observed call navigates its path with every symlink followed
NavigatesThrough ==
  /\ res.op \in {"statSync", "readdirSync"}
  /\ res.path # <<>>
  /\ Plain(res.path)

\* C38: a call that navigates its path fails with ELOOP only when following the symlinks of the path step by step never ends; when the steps reach a file, a directory or a missing name, the same symlink met twice on the way or not, the call does not fail with ELOOP
C38_NoFalseLoop ==
  (NavigatesThrough /\ res.error = "ELOOP") => Leads(res.pre, res.path).end = "loop"

\* the ids that the allocator of the descriptors holds as allocated
AllocatedFds(s) == { id \in 0 .. MaxFds + 1 : Recorded(s.fdMgr.counter, id) }

Children(s, d) ==
  { index \in Live(s) :
      /\ IsDirectory(s, getINode(s, index))
      /\ \E h \in Holders(s, index) : h[1] = d }

\* the directories reached from those of S in at most n steps along such
\* entries
RECURSIVE Descend(_, _, _)
Descend(s, S, n) ==
  IF n = 0 THEN S
  ELSE Descend(s, S \cup UNION { Children(s, d) : d \in S }, n - 1)

FromRoot(s) == Descend(s, {RootIndex(s)}, MaxTreeInodes)

\* C40: in every state every directory that has a name is reached from the root along entries other than "." and "..": no call, rename of a directory to a path inside itself or one of its descendants among them, detaches a subtree or closes a cycle of such entries
C40_TreeReachability ==
  Named(fs) \subseteq FromRoot(fs)

====
